---- MODULE Spec2Model ----
(***************************************************************************)
(* Driver notification bot: the check-in ledger (app/services/checks.py)   *)
(* and the follow-up scheduler (app/services/autosend.py).                 *)
(*                                                                         *)
(* The ledger is the daily_checkins table, the drivers table and the media *)
(* table; every SQL statement is one atomic step of the datastore.  The    *)
(* scheduler is the job store of the AsyncIOScheduler plus the in-process  *)
(* index SchedulerService._followup_jobs.                                  *)
(*                                                                         *)
(* Time is a clock in minutes.  SQL NULL / Python None is NULL for numeric *)
(* columns and NoReason for the text column reason.  The column updated_at *)
(* is written by every statement and read by none; it is left out.         *)
(***************************************************************************)
EXTENDS Integers, Sequences, FiniteSets, TLC

VARIABLES
    checkins,        \* daily_checkins: sequence of rows, the row id is the index
    drivers,         \* drivers: driver id -> row
    media,           \* media: set of <<checkin_id, file_id>>
    clock,           \* now(), in minutes
    excuse_pending,  \* set_excused calls between their UPDATE and their INSERT
    last,            \* the last operation that ran and what it returned
    jobs,            \* the scheduler's job store: set of [id, run_date]
    followup_jobs,   \* SchedulerService._followup_jobs: checkin id -> list of job ids
    running,         \* instances of _run_followup_job in flight: set of [id, pc]
    media_log,       \* per (driver, date): record_media calls since the row was new or reset
    reviewing,       \* review-card callbacks between fetch_checkin and their update
    tracking,        \* compliance_tracking: driver id -> row, for the drivers that have one
    ticks,           \* send_hourly_report calls in flight
    fired,           \* per driver and channel: when an alert last fired
    groups,          \* groups: group id -> row, for the groups that have one
    group_jobs,      \* the scheduler's recurring jobs: set of [id, at]
    resolving,       \* resolve_comment_prompt calls between their SELECT and UPDATE
    notes,           \* compliance_notes: set of [driver_id, reply, message_id]
    prompts_sent,    \* how many comment prompts the bot has posted
    response,        \* the dashboard's last exchange: the request and its answer
    refreshing       \* command handlers between their UPDATE of groups and the end of refresh_group

ledgerVars == <<checkins, drivers, media, excuse_pending, media_log>>
schedVars == <<jobs, followup_jobs, running>>
handlerVars == <<reviewing>>
complianceVars == <<tracking, ticks, fired>>
groupVars == <<groups, group_jobs, refreshing>>
promptVars == <<resolving, notes, prompts_sent>>
dashVars == <<response>>
vars == <<checkins, drivers, media, clock, excuse_pending, last,
          jobs, followup_jobs, running, media_log, reviewing, tracking, ticks, fired,
          groups, group_jobs, resolving, notes, prompts_sent, response, refreshing>>

----------------------------------------------------------------------------
(* Bounds and input sets *)

MaxClock == 2
MaxMedia == 2
MaxSchedClock == 50

NULL == -1
NoReason == "NULL"

DriverIds == {1}
GroupIds == {1, 2}
Dates == {1}
ReviewerIds == {7}
FileIds == {"f1"}
ReviewStatuses == {"pass", "fail", "needs_fix"}
SkipReasons == {"Off today"}
CheckinIds == {1}
AdvanceSteps == {5}

OpenStatuses == {"pending", "submitted"}
TerminalStatuses == {"pass", "fail", "needs_fix", "excused"}

----------------------------------------------------------------------------
(* Rows *)

\* A row as INSERT INTO daily_checkins (driver_id, group_id, date) leaves it:
\* every other column at its default.
DefaultRow(d, g, dt) ==
    [driver_id |-> d, group_id |-> g, date |-> dt,
     sent_at |-> NULL, responded_at |-> NULL, status |-> "pending",
     reason |-> NoReason, reviewer_user_id |-> NULL, reviewed_at |-> NULL,
     review_message_id |-> NULL, media_count |-> 0]

\* The dashboard before its first request.
NoResponse ==
    [path |-> "none", credentials |-> <<"", "">>, driver_id |-> 0, status |-> 0,
     body |-> << >>]

Driver0 ==
    [active |-> TRUE, streak_current |-> 0, streak_best |-> 0, last_pass_at |-> NULL,
     notify_chat_id |-> NULL]

Checkin_is_terminal(row) == row.status \in TerminalStatuses

\* Rows of (driver, date): the target of ON CONFLICT (driver_id, date).
RowsOfDay(rows, d, dt) ==
    {i \in DOMAIN rows : rows[i].driver_id = d /\ rows[i].date = dt}

\* Rows matched by WHERE driver_id = $1 AND group_id = $2 AND date = $3.
RowsOfKey(rows, d, g, dt) ==
    {i \in DOMAIN rows : rows[i].driver_id = d /\ rows[i].group_id = g /\ rows[i].date = dt}

----------------------------------------------------------------------------
(* Ledger operations, as functions of the tables *)

\* Faulty variants of ensure_checkin: an INSERT without the ON CONFLICT clause on a
\* table without the unique index; an upsert whose DO UPDATE also resets the
\* status.
ensure_checkin_noconflict(rows, d, g, dt) == Append(rows, DefaultRow(d, g, dt))

ensure_checkin_resets(rows, d, g, dt) ==
    IF RowsOfDay(rows, d, dt) # {}
    THEN LET setGroup(r) == [r EXCEPT !.group_id = g, !.status = "pending"]
         IN  [i \in DOMAIN rows |-> IF i \in RowsOfDay(rows, d, dt) THEN setGroup(rows[i]) ELSE rows[i]]
    ELSE Append(rows, DefaultRow(d, g, dt))

\* INSERT ... ON CONFLICT (driver_id, date) DO UPDATE SET group_id = EXCLUDED.group_id

ensure_checkin(rows, d, g, dt) ==
    IF RowsOfDay(rows, d, dt) # {}
    THEN LET setGroup(r) == [r EXCEPT !.group_id = g]
         IN  [i \in DOMAIN rows |-> IF i \in RowsOfDay(rows, d, dt) THEN setGroup(rows[i]) ELSE rows[i]]
    ELSE Append(rows, DefaultRow(d, g, dt))

\* The row the upsert RETURNs.
ensured_id(rows, d, dt) ==
    IF RowsOfDay(rows, d, dt) # {}
    THEN CHOOSE i \in RowsOfDay(rows, d, dt) : TRUE
    ELSE Len(rows) + 1

\* SET sent_at = COALESCE(sent_at, now())
mark_notified(rows, id, now) ==
    LET f(r) == [r EXCEPT !.sent_at = IF r.sent_at # NULL THEN r.sent_at ELSE now]
    IN  [i \in DOMAIN rows |-> IF i \in {id} THEN f(rows[i]) ELSE rows[i]]

\* Faulty variant of reset_row: the review columns are not cleared.
reset_row_keep_review(r) ==
    [r EXCEPT !.media_count = 0, !.responded_at = NULL, !.status = "pending",
              !.reason = NoReason, !.sent_at = NULL, !.review_message_id = NULL]

\* The UPDATE of reset_checkin.
reset_row(r) ==
    [r EXCEPT !.media_count = 0, !.responded_at = NULL, !.status = "pending",
              !.reason = NoReason, !.reviewer_user_id = NULL, !.reviewed_at = NULL,
              !.sent_at = NULL, !.review_message_id = NULL]

set_offthread_warning(rows, id, active) ==
    LET f(r) == [r EXCEPT !.reason = IF active THEN "offthread_warning" ELSE NoReason]
    IN  [i \in DOMAIN rows |-> IF i \in {id} THEN f(rows[i]) ELSE rows[i]]

\* Faulty variants of record_media_row: responded_at without COALESCE; status without
\* the CASE.
record_media_row_overwrite(r, now) ==
    [r EXCEPT !.media_count = r.media_count + 1,
              !.responded_at = now,
              !.status = IF r.status \in {"pending", "submitted"} THEN "submitted" ELSE r.status,
              !.reason = NoReason]

record_media_row_submits(r, now) ==
    [r EXCEPT !.media_count = r.media_count + 1,
              !.responded_at = IF r.responded_at # NULL THEN r.responded_at ELSE now,
              !.status = "submitted",
              !.reason = NoReason]

\* The UPDATE of record_media.
record_media_row(r, now) ==
    [r EXCEPT !.media_count = r.media_count + 1,
              !.responded_at = IF r.responded_at # NULL THEN r.responded_at ELSE now,
              !.status = IF r.status \in {"pending", "submitted"} THEN "submitted" ELSE r.status,
              !.reason = NoReason]

\* Faulty variant of set_excused_row: reviewed_at is not stamped.
set_excused_row_unreviewed(r, reason, now) ==
    [r EXCEPT !.status = "excused", !.reason = reason, !.reviewer_user_id = NULL]

\* The UPDATE of set_excused.
set_excused_row(r, reason, now) ==
    [r EXCEPT !.status = "excused", !.reason = reason, !.reviewer_user_id = NULL,
              !.reviewed_at = now]

\* The row of set_excused's INSERT.
ExcusedRow(d, g, dt, reason, now) ==
    [DefaultRow(d, g, dt) EXCEPT !.status = "excused", !.reason = reason, !.reviewed_at = now]

\* The UPDATE of update_review_status.
review_row(r, status, reviewer, reason, now) ==
    [r EXCEPT !.status = status, !.reason = reason, !.reviewer_user_id = reviewer,
              !.reviewed_at = now]

\* Faulty variant of reopen_row: the notification time is cleared as well.
reopen_row_unnotified(r) ==
    [r EXCEPT !.status = "submitted", !.reason = NoReason, !.reviewer_user_id = NULL,
              !.reviewed_at = NULL, !.sent_at = NULL]

\* Faulty variant of reopen_row: the media count is cleared as well.
reopen_row_clears_media(r) ==
    [r EXCEPT !.status = "submitted", !.reason = NoReason, !.reviewer_user_id = NULL,
              !.reviewed_at = NULL, !.media_count = 0]

\* The UPDATE of reopen_checkin.
reopen_row(r) ==
    [r EXCEPT !.status = "submitted", !.reason = NoReason, !.reviewer_user_id = NULL,
              !.reviewed_at = NULL]

\* Faulty variant of review_last_pass: a fail or needs_fix leaves the last pass.
review_last_pass_kept(old, status, now) ==
    IF status = "pass" THEN now ELSE old

\* update_review_status, after its UPDATE found the row: drivers.last_pass_at
\* = now() on pass, NULL on fail and needs_fix, untouched otherwise.
review_last_pass(old, status, now) ==
    IF status = "pass" THEN now
    ELSE IF status \in {"fail", "needs_fix"} THEN NULL
    ELSE old

\* Faulty variant of record_media_first: the row's status is read for the count.
record_media_first_pending(r) == r.status = "pending"

\* first_media = checkin_record["media_count"] == 0, on the row the upsert
\* returned.
record_media_first(r) == r.media_count = 0

\* The reason each review action stores (handlers/review.py).
ReviewReason(status) ==
    CASE status = "pass" -> NoReason
      [] status = "needs_fix" -> "Needs fix"
      [] OTHER -> "Other"

----------------------------------------------------------------------------
(* Initial state: the tables after the process has started on an empty      *)
(* database with its drivers registered.                                    *)

Init ==
    /\ checkins = << >>
    /\ drivers = [d \in DriverIds |-> Driver0]
    /\ media = {}
    /\ clock = 0
    /\ excuse_pending = {}
    /\ last = [op |-> "init", id |-> 0, count |-> 0]
    /\ jobs = {}
    /\ followup_jobs = [c \in CheckinIds |-> << >>]
    /\ running = {}
    /\ media_log = [k \in DriverIds \X Dates |-> [calls |-> 0, firsts |-> 0]]
    /\ reviewing = {}
    /\ tracking = << >>
    /\ ticks = {}
    /\ fired = [d \in DriverIds |-> [driver |-> NULL, dispatch |-> NULL]]
    /\ groups = << >>
    /\ group_jobs = {}
    /\ resolving = {}
    /\ notes = {}
    /\ prompts_sent = 0
    /\ response = NoResponse
    /\ refreshing = {}

\* What an operation hands back: its name, the id of the row it returns (0 for
\* None) and, for record_media and reset_checkin, the media_count it found.
Ret(op, id) == [op |-> op, id |-> id, count |-> 0]

\* first_media = checkin_record["media_count"] == 0
first_media == last.op = "record_media" /\ last.count = 0

----------------------------------------------------------------------------
(* Ledger actions *)

Tick ==
    /\ clock < MaxClock
    /\ clock' = clock + 1
    /\ last' = Ret("tick", 0)
    /\ UNCHANGED <<ledgerVars, schedVars, handlerVars, complianceVars, groupVars, promptVars, dashVars>>

EnsureCheckin(d, g, dt) ==
    /\ checkins' = ensure_checkin(checkins, d, g, dt)
    /\ last' = Ret("ensure_checkin", ensured_id(checkins, d, dt))
    /\ UNCHANGED <<drivers, media, media_log, clock, excuse_pending, schedVars, handlerVars, complianceVars, groupVars, promptVars, dashVars>>

MarkNotified(id) ==
    /\ id \in DOMAIN checkins
    /\ checkins' = mark_notified(checkins, id, clock)
    /\ last' = Ret("mark_notified", id)
    /\ UNCHANGED <<drivers, media, media_log, clock, excuse_pending, schedVars, handlerVars, complianceVars, groupVars, promptVars, dashVars>>

\* reset_checkin: SELECT driver_id; DELETE FROM media; UPDATE daily_checkins;
\* UPDATE drivers SET last_pass_at = NULL.
ResetCheckin(id) ==
    /\ id \in DOMAIN checkins
    /\ media' = {m \in media : m[1] # id}
    /\ checkins' = [i \in DOMAIN checkins |-> IF i \in {id} THEN reset_row(checkins[i]) ELSE checkins[i]]
    /\ drivers' = [drivers EXCEPT ![checkins[id].driver_id].last_pass_at = NULL]
    /\ last' = [op |-> "reset_checkin", id |-> id, count |-> checkins[id].media_count]
    /\ media_log' = [media_log EXCEPT ![<<checkins[id].driver_id, checkins[id].date>>] =
                         [calls |-> 0, firsts |-> 0]]
    /\ UNCHANGED <<clock, excuse_pending, schedVars, handlerVars, complianceVars, groupVars, promptVars, dashVars>>

SetOffthreadWarning(id, active) ==
    /\ id \in DOMAIN checkins
    /\ checkins' = set_offthread_warning(checkins, id, active)
    /\ last' = Ret("set_offthread_warning", id)
    /\ UNCHANGED <<drivers, media, media_log, clock, excuse_pending, schedVars, handlerVars, complianceVars, groupVars, promptVars, dashVars>>

\* record_media: one transaction of upsert, INSERT INTO media ... ON CONFLICT
\* DO NOTHING, UPDATE.  The upsert takes the row lock, so two calls for the
\* same (driver, date) run one after the other.
RecordMedia(d, g, dt, file) ==
    LET id == ensured_id(checkins, d, dt)
        upserted == ensure_checkin(checkins, d, g, dt)
        record_media_update(r) == record_media_row(r, clock)
    IN  /\ upserted[id].media_count < MaxMedia
        /\ media' = media \cup {<<id, file>>}
        /\ checkins' = [i \in DOMAIN upserted |-> IF i \in {id} THEN record_media_update(upserted[i]) ELSE upserted[i]]
        /\ last' = [op |-> "record_media", id |-> id, count |-> upserted[id].media_count]
        /\ media_log' = [media_log EXCEPT ![<<d, dt>>] =
                             [calls |-> @.calls + 1,
                              firsts |-> @.firsts +
                                  (IF record_media_first(upserted[id]) THEN 1 ELSE 0)]]
        /\ UNCHANGED <<drivers, clock, excuse_pending, schedVars, handlerVars, complianceVars, groupVars, promptVars, dashVars>>

\* set_excused, first statement: the UPDATE.  When it matches no row the call
\* goes on to its INSERT, which is a second statement.
SetExcusedUpdate(d, g, dt, reason) ==
    LET hit == RowsOfKey(checkins, d, g, dt)
        set_excused_update(r) == set_excused_row(r, reason, clock)
    IN  IF hit # {}
        THEN /\ checkins' = [i \in DOMAIN checkins |-> IF i \in hit THEN set_excused_update(checkins[i]) ELSE checkins[i]]
             /\ last' = Ret("set_excused", CHOOSE i \in hit : TRUE)
             /\ UNCHANGED <<drivers, media, media_log, clock, excuse_pending, schedVars, handlerVars, complianceVars, groupVars, promptVars, dashVars>>
        ELSE /\ excuse_pending' = excuse_pending \cup
                    {[driver_id |-> d, group_id |-> g, date |-> dt, reason |-> reason]}
             /\ last' = Ret("set_excused_miss", 0)
             /\ UNCHANGED <<checkins, drivers, media, media_log, clock, schedVars, handlerVars, complianceVars, groupVars, promptVars, dashVars>>

\* set_excused, second statement: the INSERT (no ON CONFLICT clause).  The
\* unique index on (driver_id, date) rejects it when a row of that day exists
\* by now, and the call raises.
SetExcusedInsert(p) ==
    /\ p \in excuse_pending
    /\ excuse_pending' = excuse_pending \ {p}
    /\ IF RowsOfDay(checkins, p.driver_id, p.date) = {}
       THEN /\ checkins' = Append(checkins,
                    ExcusedRow(p.driver_id, p.group_id, p.date, p.reason, clock))
            /\ last' = Ret("set_excused", Len(checkins) + 1)
       ELSE /\ checkins' = checkins
            /\ last' = Ret("set_excused_raise", 0)
    /\ UNCHANGED <<drivers, media, media_log, clock, schedVars, handlerVars, complianceVars, groupVars, promptVars, dashVars>>

\* update_review_status: the UPDATE, then the drivers.last_pass_at update.
UpdateReviewStatus(d, g, dt, status, reviewer) ==
    LET hit == RowsOfKey(checkins, d, g, dt)
        review_update(r) == review_row(r, status, reviewer, ReviewReason(status), clock)
    IN  IF hit # {}
        THEN /\ checkins' = [i \in DOMAIN checkins |-> IF i \in hit THEN review_update(checkins[i]) ELSE checkins[i]]
             /\ drivers' = [drivers EXCEPT ![d].last_pass_at =
                               review_last_pass(@, status, clock)]
             /\ last' = Ret("update_review_status", CHOOSE i \in hit : TRUE)
             /\ UNCHANGED <<media, media_log, clock, excuse_pending, schedVars, handlerVars, complianceVars, groupVars, promptVars, dashVars>>
        ELSE /\ last' = Ret("update_review_status", 0)
             /\ UNCHANGED <<ledgerVars, clock, schedVars, handlerVars, complianceVars, groupVars, promptVars, dashVars>>

\* reopen_checkin: the UPDATE, then drivers.last_pass_at = NULL.
ReopenCheckin(d, g, dt) ==
    LET hit == RowsOfKey(checkins, d, g, dt)
    IN  IF hit # {}
        THEN /\ checkins' = [i \in DOMAIN checkins |-> IF i \in hit THEN reopen_row(checkins[i]) ELSE checkins[i]]
             /\ drivers' = [drivers EXCEPT ![d].last_pass_at = NULL]
             /\ last' = Ret("reopen_checkin", CHOOSE i \in hit : TRUE)
             /\ UNCHANGED <<media, media_log, clock, excuse_pending, schedVars, handlerVars, complianceVars, groupVars, promptVars, dashVars>>
        ELSE /\ last' = Ret("reopen_checkin", 0)
             /\ UNCHANGED <<ledgerVars, clock, schedVars, handlerVars, complianceVars, groupVars, promptVars, dashVars>>

LedgerNext ==
    \/ Tick
    \/ \E d \in DriverIds, g \in GroupIds, dt \in Dates : EnsureCheckin(d, g, dt)
    \/ \E id \in DOMAIN checkins : MarkNotified(id)
    \/ \E id \in DOMAIN checkins : ResetCheckin(id)
    \/ \E id \in DOMAIN checkins, active \in BOOLEAN : SetOffthreadWarning(id, active)
    \/ \E d \in DriverIds, g \in GroupIds, dt \in Dates, f \in FileIds : RecordMedia(d, g, dt, f)
    \/ \E d \in DriverIds, g \in GroupIds, dt \in Dates, r \in SkipReasons :
           SetExcusedUpdate(d, g, dt, r)
    \/ \E p \in excuse_pending : SetExcusedInsert(p)
    \/ \E d \in DriverIds, g \in GroupIds, dt \in Dates, s \in ReviewStatuses, u \in ReviewerIds :
           UpdateReviewStatus(d, g, dt, s, u)
    \/ \E d \in DriverIds, g \in GroupIds, dt \in Dates : ReopenCheckin(d, g, dt)

LedgerSpec == Init /\ [][LedgerNext]_vars

----------------------------------------------------------------------------
(* Follow-up scheduler (app/services/autosend.py)                           *)
(*                                                                          *)
(* jobs is the job store of the AsyncIOScheduler.  A job added with         *)
(* trigger='date' is run once: when its run_date has come the scheduler     *)
(* takes it out of the store and hands the coroutine to the event loop as a *)
(* task of its own, which starts at a later turn of the loop.  Coroutines   *)
(* give way to one another only at an await that suspends, so the code      *)
(* between two such awaits is one step.  followup_jobs holds, for a checkin *)
(* id, the list of job ids; a missing key is the empty list (the code pops  *)
(* the key when its list empties and reads both alike).                     *)

FOLLOWUP_DELAYS == <<15, 50>>

\* job_id = f"followup:{checkin_id}:{idx}"
JobId(c, slot) == <<c, slot>>

Range(seq) == {seq[k] : k \in DOMAIN seq}

JobsOf(store, c) == {j \in store : j.id[1] = c}

\* Faulty variant of followup_run_date: every slot at the first delay.
followup_run_date_first(now, idx) == now + FOLLOWUP_DELAYS[1]

\* run_date = now + delay
followup_run_date(now, idx) == now + FOLLOWUP_DELAYS[idx]

\* Faulty variant of add_job: the new job is stored beside a job of the same id.
add_job_beside(store, id, run_date) ==
    store \cup {[id |-> id, run_date |-> run_date]}

\* scheduler.add_job(..., trigger='date', run_date=run_date, id=job_id,
\*                   replace_existing=True)
add_job(store, id, run_date) ==
    {j \in store : j.id # id} \cup {[id |-> id, run_date |-> run_date]}

\* cancel_followups on the job store: every job the index lists for the
\* checkin is removed when the store still holds it.
cancel_followups_jobs(store, index, c) ==
    {j \in store : j.id \notin Range(index[c])}

\* cancel_followups on the index: self._followup_jobs.pop(checkin_id, [])
cancel_followups_index(index, c) == [index EXCEPT ![c] = << >>]

\* schedule_followups on the job store: cancel, then one add_job per delay.
schedule_followups_jobs(store, index, c, now) ==
    add_job(add_job(cancel_followups_jobs(store, index, c),
                    JobId(c, 1), followup_run_date(now, 1)),
            JobId(c, 2), followup_run_date(now, 2))

\* schedule_followups on the index: self._followup_jobs[checkin_id] = jobs
schedule_followups_index(index, c) ==
    [index EXCEPT ![c] = <<JobId(c, 1), JobId(c, 2)>>]

\* jobs.remove(job_id) of _run_followup_job
remove_job_id(list, id) ==
    SelectSeq(list, LAMBDA x : x # id)

DueJobs == {j \in jobs : j.run_date <= clock}

\* Time passes, by a step or up to the next run_date if that comes first.  A
\* job that is due is dispatched before time passes, and a follow-up job in
\* flight ends within the minute.
Advance(d) ==
    LET armed == {j.run_date : j \in jobs}
        target == IF \E t \in armed : t < clock + d
                  THEN CHOOSE t \in armed : \A u \in armed : t <= u
                  ELSE clock + d
    IN  /\ DueJobs = {}
        /\ running = {}
        /\ target <= MaxSchedClock
        /\ clock' = target
        /\ last' = Ret("advance", 0)
        /\ UNCHANGED <<ledgerVars, schedVars, handlerVars, complianceVars, groupVars, promptVars, dashVars>>

ScheduleFollowups(c) ==
    /\ c \in DOMAIN checkins
    /\ jobs' = schedule_followups_jobs(jobs, followup_jobs, c, clock)
    /\ followup_jobs' = schedule_followups_index(followup_jobs, c)
    /\ last' = [op |-> "schedule_followups", id |-> c,
                count |-> Cardinality(JobsOf(jobs, c))]
    /\ UNCHANGED <<ledgerVars, clock, running, handlerVars, complianceVars, groupVars, promptVars, dashVars>>

CancelFollowups(c) ==
    /\ c \in DOMAIN checkins
    /\ jobs' = cancel_followups_jobs(jobs, followup_jobs, c)
    /\ followup_jobs' = cancel_followups_index(followup_jobs, c)
    /\ last' = [op |-> "cancel_followups", id |-> c,
                count |-> Cardinality(JobsOf(jobs, c))]
    /\ UNCHANGED <<ledgerVars, clock, running, handlerVars, complianceVars, groupVars, promptVars, dashVars>>

\* The scheduler finds the job due: it submits the coroutine to the event loop
\* and, the date trigger having no further run time, removes the job.
JobDispatch(j) ==
    /\ j \in DueJobs
    /\ \A r \in running : r.id # j.id
    /\ jobs' = jobs \ {j}
    /\ running' = running \cup {[id |-> j.id, pc |-> "start"]}
    /\ last' = Ret("followup_dispatch", j.id[1])
    /\ UNCHANGED <<ledgerVars, clock, followup_jobs, handlerVars, complianceVars, groupVars, promptVars, dashVars>>

\* Faulty variant of JobStart: the job strikes its id and cancels what is left
\* of the checkin's schedule.
JobStart_cancels(r) ==
    /\ r \in running /\ r.pc = "start"
    /\ jobs' = JobsOf(jobs, 0)
    /\ followup_jobs' = [followup_jobs EXCEPT ![r.id[1]] = << >>]
    /\ running' = (running \ {r}) \cup {[r EXCEPT !.pc = "fetch"]}
    /\ last' = Ret("followup_start", r.id[1])
    /\ UNCHANGED <<ledgerVars, clock, handlerVars, complianceVars, groupVars, promptVars, dashVars>>

\* _run_followup_job up to its first await: the job id leaves the index.
JobStart(r) ==
    /\ r \in running /\ r.pc = "start"
    /\ followup_jobs' =
          [followup_jobs EXCEPT ![r.id[1]] = remove_job_id(@, r.id)]
    /\ running' = (running \ {r}) \cup {[r EXCEPT !.pc = "fetch"]}
    /\ last' = Ret("followup_start", r.id[1])
    /\ UNCHANGED <<ledgerVars, clock, jobs, handlerVars, complianceVars, groupVars, promptVars, dashVars>>

\* checks.fetch_checkin_by_id: the row as it is when the query runs.  The job
\* goes on only with a row that is pending or submitted and has no response.
JobFetch(r) ==
    LET c == r.id[1]
        open == /\ c \in DOMAIN checkins
                /\ checkins[c].status \in {"pending", "submitted"}
                /\ checkins[c].responded_at = NULL
    IN  /\ r \in running /\ r.pc = "fetch"
        /\ running' = (running \ {r}) \cup {[r EXCEPT !.pc = IF open THEN "go" ELSE "stop"]}
        /\ last' = Ret("followup_fetch", c)
        /\ UNCHANGED <<ledgerVars, clock, jobs, followup_jobs, handlerVars, complianceVars, groupVars, promptVars, dashVars>>

\* The job gives up: the checkin is gone, closed or answered, or (paused) the
\* target chat is flagged paused or cannot be inspected.  It cancels the
\* checkin's follow-ups and returns.
JobCancel(r, paused) ==
    LET c == r.id[1]
    IN  /\ r \in running
        /\ r.pc = "stop" \/ (r.pc = "go" /\ paused)
        /\ jobs' = cancel_followups_jobs(jobs, followup_jobs, c)
        /\ followup_jobs' = cancel_followups_index(followup_jobs, c)
        /\ running' = running \ {r}
        /\ last' = [op |-> "followup_cancel", id |-> c,
                    count |-> Cardinality(JobsOf(jobs, c))]
        /\ UNCHANGED <<ledgerVars, clock, handlerVars, complianceVars, groupVars, promptVars, dashVars>>

\* The job sends: the reminder to the driver, then the "still pending" notice
\* to the dispatcher thread (sent), or a send raises and the job logs it.  The
\* slot is handed back as the count.
JobSend(r, sent) ==
    /\ r \in running /\ r.pc = "go"
    /\ running' = running \ {r}
    /\ last' = [op |-> IF sent THEN "followup_sent" ELSE "followup_failed",
                id |-> r.id[1], count |-> r.id[2]]
    /\ UNCHANGED <<ledgerVars, clock, jobs, followup_jobs, handlerVars, complianceVars, groupVars, promptVars, dashVars>>

SchedNext ==
    \/ \E d \in AdvanceSteps : Advance(d)
    \/ \E d \in DriverIds, dt \in Dates : EnsureCheckin(d, 1, dt)
    \/ \E d \in DriverIds, dt \in Dates, f \in FileIds : RecordMedia(d, 1, dt, f)
    \/ \E id \in DOMAIN checkins : ResetCheckin(id)
    \/ \E c \in CheckinIds : ScheduleFollowups(c)
    \/ \E c \in CheckinIds : CancelFollowups(c)
    \/ \E j \in jobs : JobDispatch(j)
    \/ \E r \in running : JobStart(r)
    \/ \E r \in running : JobFetch(r)
    \/ \E r \in running, paused \in BOOLEAN : JobCancel(r, paused)
    \/ \E r \in running, sent \in BOOLEAN : JobSend(r, sent)

SchedSpec == Init /\ [][SchedNext]_vars

\* The scheduler at work: time passes, the AsyncIOScheduler submits every job
\* that is due, and the event loop runs every coroutine it was given to its
\* end.
SchedFairness ==
    /\ WF_vars(\E d \in AdvanceSteps : Advance(d))
    /\ WF_vars(\E j \in jobs : JobDispatch(j))
    /\ WF_vars(\E r \in running : JobStart(r))
    /\ WF_vars(\E r \in running : JobFetch(r))
    /\ WF_vars(\E r \in running, b \in BOOLEAN : JobCancel(r, b) \/ JobSend(r, b))

SchedLiveSpec == SchedSpec /\ SchedFairness

----------------------------------------------------------------------------
(* Compliance tracker (app/services/compliance.py): the table               *)
(* compliance_tracking, one row per driver.  The columns last_report_at and *)
(* updated_at are written and never read; they are left out.               *)

REPORT_WINDOW == 1440

ComplianceStatuses == {"compliant", "non_compliant", "exception"}

\* A row as INSERT INTO compliance_tracking (driver_id, ...) leaves the
\* columns it does not name.
TrackingRow0 ==
    [consecutive_reports |-> 0, last_status |-> "NULL",
     last_driver_alert_at |-> NULL, last_dispatch_alert_at |-> NULL,
     last_comment_thread_id |-> NULL]

\* Faulty variant of upsert_consecutive: a non_compliant evaluation starts
\* the count again at 1 whatever the stored classification.
upsert_consecutive_restart(prev_status, prev_count, status) ==
    IF status = "non_compliant" THEN 1 ELSE 0

\* The CASE of _upsert_state's DO UPDATE.
upsert_consecutive(prev_status, prev_count, status) ==
    IF status = "non_compliant" /\ prev_status = "non_compliant" THEN prev_count + 1
    ELSE IF status = "non_compliant" THEN 1
    ELSE 0

\* _upsert_state: INSERT ... ON CONFLICT (driver_id) DO UPDATE ... RETURNING *
upsert_state(tr, d, status) ==
    IF d \in DOMAIN tr
    THEN [tr EXCEPT ![d] = [@ EXCEPT
             !.last_status = status,
             !.consecutive_reports =
                 upsert_consecutive(tr[d].last_status, tr[d].consecutive_reports, status)]]
    ELSE tr @@ (d :> [TrackingRow0 EXCEPT
             !.last_status = status,
             !.consecutive_reports = IF status = "non_compliant" THEN 1 ELSE 0])

\* _reset_state: an UPDATE, which matches nothing when the driver has no row.
reset_state(tr, d, status) ==
    IF d \in DOMAIN tr
    THEN [tr EXCEPT ![d] = [@ EXCEPT !.consecutive_reports = 0, !.last_status = status]]
    ELSE tr

\* Faulty variant of pass_event: the reset alone, without the upsert.
pass_event_no_upsert(tr, d) == reset_state(tr, d, "compliant")

\* handle_pass_event: _upsert_state(compliant), then _reset_state(compliant).
pass_event(tr, d) == reset_state(upsert_state(tr, d, "compliant"), d, "compliant")

----------------------------------------------------------------------------
(* Handlers (app/handlers/commands.py, app/handlers/review.py) and the      *)
(* autosend job, each with the ledger and scheduler calls it makes.  A      *)
(* review-card callback for pass or fix reads the row first and updates it  *)
(* in a later statement; the two are separate steps.  The other handlers    *)
(* are taken in one step each.                                              *)

MaxStreak == 2

MessageIds == {1}
ChatIds == {100}
DefaultGroup == 1
ReviewActions == {"pass", "fix"}

\* datetime.astimezone(timezone).date(), with the clock in minutes of local
\* time and day 1 starting at minute 0.
local_date(t) == 1 + (t \div 1440)

\* /notify: needs_reset
needs_reset(r) ==
    \/ r.media_count > 0
    \/ r.status \notin {"pending", "submitted"}
    \/ r.reason # NoReason
    \/ r.review_message_id # NULL

\* The autosend job: the row is reset when it has media or is closed.
autosend_needs_reset(r) ==
    r.media_count > 0 \/ r.status \notin {"pending", "submitted"}

\* Faulty variant of notified_on: the comparison of the day is inverted.
notified_on_other_day(r, day) == r.sent_at # NULL /\ local_date(r.sent_at) # day

\* "already notified today": checkin.sent_at and its local date is the day.
notified_on(r, day) == r.sent_at # NULL /\ local_date(r.sent_at) = day

\* sync_review_card on the row: a card is posted and its message id stored when
\* the row has none; a row with a card has the card edited.
sync_review_card_row(r, msg) ==
    IF r.review_message_id # NULL THEN r ELSE [r EXCEPT !.review_message_id = msg]

\* Faulty variant of update_after_pass: the best streak is left as it was.
update_after_pass_current_only(drv) ==
    [drv EXCEPT !.streak_current = drv.streak_current + 1]

\* Faulty variant of update_after_pass: the best streak follows the current one.
update_after_pass_best_follows(drv) ==
    [drv EXCEPT !.streak_current = drv.streak_current + 1,
                !.streak_best = drv.streak_current + 1]

\* streaks.update_after_pass
update_after_pass(drv) ==
    [drv EXCEPT !.streak_current = drv.streak_current + 1,
                !.streak_best = IF drv.streak_best > drv.streak_current + 1
                                THEN drv.streak_best ELSE drv.streak_current + 1]

\* Faulty variant of review_streak: the streak is updated whether or not the
\* update found a row.
review_streak_ungated(drv, updated, status) ==
    IF status = "pass" THEN update_after_pass(drv) ELSE drv

\* The pass branch of the review handlers: if updated: update_after_pass.
review_streak(drv, updated, status) ==
    IF updated /\ status = "pass" THEN update_after_pass(drv) ELSE drv

ReviewStatusOf(action) == IF action = "pass" THEN "pass" ELSE "needs_fix"

\* The ledger and the scheduler after a notification flow on the row id:
\* an optional cancel_followups and reset_checkin, mark_notified, then (when
\* the message went out) sync_review_card and schedule_followups.
NotifyFlow(op, rows, id, d, reset, sent, msg) ==
    LET cleared == IF reset THEN [rows EXCEPT ![id] = reset_row(@)] ELSE rows
        notified == mark_notified(cleared, id, clock)
        cancelledJobs == IF reset THEN cancel_followups_jobs(jobs, followup_jobs, id)
                         ELSE jobs
        cancelledIndex == IF reset THEN cancel_followups_index(followup_jobs, id)
                          ELSE followup_jobs
    IN  /\ checkins' = IF sent THEN [notified EXCEPT ![id] = sync_review_card_row(@, msg)]
                       ELSE notified
        /\ media' = IF reset THEN {m \in media : m[1] # id} ELSE media
        /\ media_log' = IF reset
                        THEN [media_log EXCEPT ![<<d, rows[id].date>>] =
                                 [calls |-> 0, firsts |-> 0]]
                        ELSE media_log
        /\ jobs' = IF sent THEN schedule_followups_jobs(cancelledJobs, cancelledIndex, id, clock)
                   ELSE cancelledJobs
        /\ followup_jobs' = IF sent THEN schedule_followups_index(cancelledIndex, id)
                            ELSE cancelledIndex
        /\ last' = [op |-> op, id |-> id, count |-> rows[id].media_count]

\* /notify (_process_notify): the chat is linked when the command comes from
\* the driver's chat; ensure_checkin; reset when needs_reset; mark_notified;
\* the reminder; the card; the follow-ups.
ProcessNotify(d, dt, chat, sent, msg) ==
    LET id == ensured_id(checkins, d, dt)
        ensured == ensure_checkin(checkins, d, DefaultGroup, dt)
        reset == needs_reset(ensured[id])
    IN  /\ dt = local_date(clock)
        /\ id \in CheckinIds
        /\ NotifyFlow("process_notify", ensured, id, d, reset, sent, msg)
        /\ drivers' = [drivers EXCEPT ![d] = [@ EXCEPT
                          !.notify_chat_id = IF chat # NULL THEN chat ELSE @,
                          !.last_pass_at = IF reset THEN NULL ELSE @]]
        /\ UNCHANGED <<clock, excuse_pending, running, handlerVars, complianceVars, groupVars, promptVars, dashVars>>

\* _run_autosend_job, for one driver: ensure_checkin; a row notified today is
\* skipped; otherwise as /notify, with the job's own reset condition.
AutosendDriver(d, g, dt, sent, msg) ==
    LET id == ensured_id(checkins, d, dt)
        ensured == ensure_checkin(checkins, d, g, dt)
        reset == autosend_needs_reset(ensured[id])
    IN  /\ dt = local_date(clock)
        /\ id \in CheckinIds
        /\ IF notified_on(ensured[id], dt)
           THEN /\ checkins' = ensured
                /\ last' = Ret("autosend_skip", id)
                /\ UNCHANGED <<drivers, media, media_log, jobs, followup_jobs>>
           ELSE /\ NotifyFlow("autosend", ensured, id, d, reset, sent, msg)
                /\ drivers' = [drivers EXCEPT ![d].last_pass_at =
                                  IF reset THEN NULL ELSE @]
        /\ UNCHANGED <<clock, excuse_pending, running, handlerVars, complianceVars, groupVars, promptVars, dashVars>>

\* The notify button of the review card: fetch_checkin; "Already notified
\* today." when the row was notified on its day; otherwise mark_notified, the
\* reminder, the card, the follow-ups.
ReviewNotify(d, g, dt, msg) ==
    LET hit == RowsOfKey(checkins, d, g, dt)
        id == CHOOSE i \in hit : TRUE
    IN  /\ hit # {}
        /\ id \in CheckinIds
        /\ IF notified_on(checkins[id], dt)
           THEN /\ last' = Ret("review_notify_skip", id)
                /\ UNCHANGED <<checkins, media, media_log, jobs, followup_jobs>>
           ELSE NotifyFlow("review_notify", checkins, id, d, FALSE, TRUE, msg)
        /\ UNCHANGED <<drivers, clock, excuse_pending, running, handlerVars, complianceVars, groupVars, promptVars, dashVars>>

\* handle_review_action, pass or fix, up to fetch_checkin: the callback goes
\* on only when the row of (driver, group, date) exists.
ReviewBegin(d, g, dt, action, reviewer) ==
    /\ RowsOfKey(checkins, d, g, dt) # {}
    /\ reviewing' = reviewing \cup
           {[driver_id |-> d, group_id |-> g, date |-> dt, action |-> action,
             reviewer |-> reviewer]}
    /\ last' = Ret("review_fetch", CHOOSE i \in RowsOfKey(checkins, d, g, dt) : TRUE)
    /\ UNCHANGED <<ledgerVars, clock, schedVars, complianceVars, groupVars, promptVars, dashVars>>

\* What a review handler does with the result of update_review_status: on a
\* row, the streak (pass), cancel_followups, the card and the pass event; on
\* None, "Unable to update." and nothing else.
ReviewOutcome(op, d, g, dt, status, reviewer, msg) ==
    LET hit == RowsOfKey(checkins, d, g, dt)
        id == IF hit # {} THEN CHOOSE i \in hit : TRUE ELSE 0
        review_update(r) ==
            sync_review_card_row(
                review_row(r, status, reviewer, ReviewReason(status), clock), msg)
    IN  /\ checkins' = [i \in DOMAIN checkins |->
                           IF i \in hit THEN review_update(checkins[i]) ELSE checkins[i]]
        /\ drivers' = [drivers EXCEPT ![d] =
               review_streak(
                   [@ EXCEPT !.last_pass_at =
                       IF hit # {} THEN review_last_pass(@, status, clock) ELSE @],
                   hit # {}, status)]
        /\ jobs' = IF id \in CheckinIds
                   THEN cancel_followups_jobs(jobs, followup_jobs, id) ELSE jobs
        /\ followup_jobs' = IF id \in CheckinIds
                            THEN cancel_followups_index(followup_jobs, id)
                            ELSE followup_jobs
        /\ tracking' = IF hit # {} /\ status = "pass" THEN pass_event(tracking, d)
                       ELSE tracking
        /\ last' = Ret(op, id)

\* handle_review_action, pass or fix, from update_review_status on.
ReviewApply(p, msg) ==
    /\ p \in reviewing
    /\ p.action = "pass" => drivers[p.driver_id].streak_current < MaxStreak
    /\ reviewing' = reviewing \ {p}
    /\ ReviewOutcome(IF p.action = "pass" THEN "review_pass" ELSE "review_fix",
                     p.driver_id, p.group_id, p.date, ReviewStatusOf(p.action),
                     p.reviewer, msg)
    /\ UNCHANGED <<media, media_log, clock, excuse_pending, running, ticks, fired, groupVars, promptVars, dashVars>>

\* handle_fail_reason: update_review_status(fail) with no fetch before it.
FailReason(d, g, dt, reviewer, msg) ==
    /\ ReviewOutcome("review_fail", d, g, dt, "fail", reviewer, msg)
    /\ UNCHANGED <<media, media_log, clock, excuse_pending, running, reviewing,
                   ticks, fired, groupVars, promptVars, dashVars>>

HandlerNext ==
    \/ Tick
    \/ \E d \in DriverIds, dt \in Dates, f \in FileIds : RecordMedia(d, DefaultGroup, dt, f)
    \/ \E d \in DriverIds, dt \in Dates, chat \in ChatIds \cup {NULL}, sent \in BOOLEAN,
          msg \in MessageIds : ProcessNotify(d, dt, chat, sent, msg)
    \/ \E d \in DriverIds, g \in GroupIds, dt \in Dates, sent \in BOOLEAN,
          msg \in MessageIds : AutosendDriver(d, g, dt, sent, msg)
    \/ \E d \in DriverIds, dt \in Dates, msg \in MessageIds :
          ReviewNotify(d, DefaultGroup, dt, msg)
    \/ \E d \in DriverIds, dt \in Dates, a \in ReviewActions, u \in ReviewerIds :
          ReviewBegin(d, DefaultGroup, dt, a, u)
    \/ \E p \in reviewing, msg \in MessageIds : ReviewApply(p, msg)
    \/ \E d \in DriverIds, dt \in Dates, u \in ReviewerIds, msg \in MessageIds :
          FailReason(d, DefaultGroup, dt, u, msg)

HandlerSpec == Init /\ [][HandlerNext]_vars

----------------------------------------------------------------------------
(* The compliance report (send_hourly_report), for one driver of its loop.  *)
(* The scheduled job and the /compliance_report command both run it, so two *)
(* reports can be in flight; each statement on compliance_tracking is one   *)
(* step.  `now` is read when the report starts and the driver row (with its *)
(* notify_chat_id) is the one list_active_drivers returned then.  An alert  *)
(* "fires" when the report puts the driver on its alert list and stamps the *)
(* alert time; the messages go out at the end of the report.                *)

MaxComplianceClock == 1440
MaxReports == 3

TickSources == {"job", "command"}
ComplianceSteps == {720, 1440}

\* Faulty variant of should_alert_driver: the threshold of the escalation.
should_alert_driver_late(state, now) ==
    /\ state.consecutive_reports >= 3
    /\ ~(state.last_driver_alert_at # NULL /\ now - state.last_driver_alert_at < REPORT_WINDOW)

\* _should_alert_driver
should_alert_driver(state, now) ==
    /\ state.consecutive_reports >= 2
    /\ ~(state.last_driver_alert_at # NULL /\ now - state.last_driver_alert_at < REPORT_WINDOW)

\* Faulty variant of should_alert_dispatch: the threshold of the nudge.
should_alert_dispatch_early(state, now) ==
    /\ state.consecutive_reports >= 2
    /\ ~(state.last_dispatch_alert_at # NULL
           /\ now - state.last_dispatch_alert_at < REPORT_WINDOW)

\* _should_alert_dispatch
should_alert_dispatch(state, now) ==
    /\ state.consecutive_reports >= 3
    /\ ~(state.last_dispatch_alert_at # NULL
           /\ now - state.last_dispatch_alert_at < REPORT_WINDOW)

\* _mark_driver_alert, _mark_dispatch_alert: UPDATE ... WHERE driver_id = $1
mark_driver_alert(tr, d, when) ==
    IF d \in DOMAIN tr THEN [tr EXCEPT ![d].last_driver_alert_at = when] ELSE tr

mark_dispatch_alert(tr, d, when) ==
    IF d \in DOMAIN tr THEN [tr EXCEPT ![d].last_dispatch_alert_at = when] ELSE tr

\* Time passes between reports.
ComplianceAdvance(step) ==
    /\ ticks = {}
    /\ clock + step <= MaxComplianceClock
    /\ clock' = clock + step
    /\ last' = Ret("advance", 0)
    /\ UNCHANGED <<ledgerVars, schedVars, handlerVars, complianceVars, groupVars, promptVars, dashVars>>

\* checks.set_driver_notify_chat: /notify from the driver's chat links it.
LinkChat(d, chat) ==
    /\ drivers[d].notify_chat_id = NULL
    /\ drivers' = [drivers EXCEPT ![d].notify_chat_id = chat]
    /\ last' = Ret("set_driver_notify_chat", d)
    /\ UNCHANGED <<checkins, media, media_log, excuse_pending, clock, schedVars,
                   handlerVars, complianceVars, groupVars, promptVars, dashVars>>

\* send_hourly_report up to its tracking loop: now, the driver as listed and
\* the classification _evaluate_driver gave.
TickBegin(src, d, status) ==
    /\ \A t \in ticks : t.src # src
    /\ d \in DOMAIN tracking => tracking[d].consecutive_reports < MaxReports
    /\ ticks' = ticks \cup
           {[src |-> src, driver_id |-> d, now |-> clock, status |-> status,
             chat |-> drivers[d].notify_chat_id, state |-> TrackingRow0,
             pc |-> "upsert"]}
    /\ last' = Ret("report_begin", d)
    /\ UNCHANGED <<ledgerVars, clock, schedVars, handlerVars, tracking, fired, groupVars, promptVars, dashVars>>

\* state = await _upsert_state(...).  For a classification other than
\* non_compliant the loop calls _reset_state when the returned count is not 0.
TickUpsert(t) ==
    LET d == t.driver_id
        upserted == upsert_state(tracking, d, t.status)
        state == upserted[d]
    IN  /\ t \in ticks /\ t.pc = "upsert"
        /\ IF t.status = "non_compliant"
           THEN /\ tracking' = upserted
                /\ ticks' = (ticks \ {t}) \cup {[t EXCEPT !.state = state, !.pc = "driver"]}
           ELSE /\ tracking' = IF state.consecutive_reports # 0
                               THEN reset_state(upserted, d, t.status) ELSE upserted
                /\ ticks' = ticks \ {t}
        /\ last' = [op |-> "upsert_state", id |-> d, count |-> state.consecutive_reports]
        /\ UNCHANGED <<ledgerVars, clock, schedVars, handlerVars, fired, groupVars, promptVars, dashVars>>

\* if entry.driver.notify_chat_id and _should_alert_driver(state, now):
\*     alert_driver.append(entry); await _mark_driver_alert(db, driver.id, now)
TickDriver(t) ==
    LET d == t.driver_id
        fires == t.chat # NULL /\ should_alert_driver(t.state, t.now)
    IN  /\ t \in ticks /\ t.pc = "driver"
        /\ ticks' = (ticks \ {t}) \cup {[t EXCEPT !.pc = "dispatch"]}
        /\ tracking' = IF fires THEN mark_driver_alert(tracking, d, t.now) ELSE tracking
        /\ fired' = IF fires THEN [fired EXCEPT ![d].driver = t.now] ELSE fired
        /\ last' = [op |-> IF fires THEN "driver_alert" ELSE "driver_alert_skip",
                    id |-> d, count |-> t.state.consecutive_reports]
        /\ UNCHANGED <<ledgerVars, clock, schedVars, handlerVars, groupVars, promptVars, dashVars>>

\* if _should_alert_dispatch(state, now):
\*     alert_dispatch.append(entry); await _mark_dispatch_alert(db, driver.id, now)
TickDispatch(t) ==
    LET d == t.driver_id
        fires == should_alert_dispatch(t.state, t.now)
    IN  /\ t \in ticks /\ t.pc = "dispatch"
        /\ ticks' = ticks \ {t}
        /\ tracking' = IF fires THEN mark_dispatch_alert(tracking, d, t.now) ELSE tracking
        /\ fired' = IF fires THEN [fired EXCEPT ![d].dispatch = t.now] ELSE fired
        /\ last' = [op |-> IF fires THEN "dispatch_alert" ELSE "dispatch_alert_skip",
                    id |-> d, count |-> t.state.consecutive_reports]
        /\ UNCHANGED <<ledgerVars, clock, schedVars, handlerVars, groupVars, promptVars, dashVars>>

\* handle_pass_event, after a pass from the review card or the report.
PassEvent(d) ==
    /\ tracking' = pass_event(tracking, d)
    /\ last' = Ret("pass_event", d)
    /\ UNCHANGED <<ledgerVars, clock, schedVars, handlerVars, ticks, fired, groupVars, promptVars, dashVars>>

\* clear_tracking (/compliance_reset): DELETE FROM compliance_tracking
ClearTracking ==
    /\ tracking # << >>
    /\ tracking' = << >>
    /\ last' = Ret("clear_tracking", 0)
    /\ UNCHANGED <<ledgerVars, clock, schedVars, handlerVars, ticks, fired, groupVars, promptVars, dashVars>>

ComplianceNext ==
    \/ \E step \in ComplianceSteps : ComplianceAdvance(step)
    \/ \E d \in DriverIds, chat \in ChatIds : LinkChat(d, chat)
    \/ \E src \in TickSources, d \in DriverIds, st \in ComplianceStatuses :
          TickBegin(src, d, st)
    \/ \E t \in ticks : TickUpsert(t)
    \/ \E t \in ticks : TickDriver(t)
    \/ \E t \in ticks : TickDispatch(t)
    \/ \E d \in DriverIds : PassEvent(d)
    \/ ClearTracking

ComplianceSpec == Init /\ [][ComplianceNext]_vars

----------------------------------------------------------------------------
(* Streaks (app/services/streaks.py): the pass from the compliance report's *)
(* button, the nightly rollover and the days it runs between.               *)

MaxDays == 1

\* Faulty variant of reset_missed_checks: a row of the day counts whatever its
\* group.
reset_missed_checks_any_group(drvs, rows, g, dt) ==
    [d \in DOMAIN drvs |->
        IF drvs[d].active /\ RowsOfDay(rows, d, dt) = {}
        THEN [drvs[d] EXCEPT !.streak_current = 0] ELSE drvs[d]]

\* UPDATE drivers SET streak_current = 0 WHERE active AND NOT EXISTS (a row of
\* daily_checkins with the driver, the group and the date)
reset_missed_checks(drvs, rows, g, dt) ==
    [d \in DOMAIN drvs |->
        IF drvs[d].active /\ RowsOfKey(rows, d, g, dt) = {}
        THEN [drvs[d] EXCEPT !.streak_current = 0] ELSE drvs[d]]

\* The local day ends: the clock comes to the first minute of the next day.
NextDay ==
    /\ local_date(clock) <= MaxDays
    /\ clock' = 1440 * local_date(clock)
    /\ last' = Ret("next_day", 0)
    /\ UNCHANGED <<ledgerVars, schedVars, handlerVars, complianceVars, groupVars, promptVars, dashVars>>

\* update_driver_profile: UPDATE drivers SET ..., active = $4
UpdateDriverProfile(d, active) ==
    /\ drivers' = [drivers EXCEPT ![d].active = active]
    /\ last' = Ret("update_driver_profile", d)
    /\ UNCHANGED <<checkins, media, media_log, excuse_pending, clock, schedVars,
                   handlerVars, complianceVars, groupVars, promptVars, dashVars>>

\* _run_midnight_reset: target_date = today - 1; reset_missed_checks.
MidnightReset(g) ==
    /\ drivers' = reset_missed_checks(drivers, checkins, g, local_date(clock) - 1)
    /\ last' = Ret("reset_missed_checks", g)
    /\ UNCHANGED <<checkins, media, media_log, excuse_pending, clock, schedVars,
                   handlerVars, complianceVars, groupVars, promptVars, dashVars>>

\* _handle_compliance_pass: ensure_checkin; update_review_status(pass);
\* update_after_pass; cancel_followups; sync_review_card; handle_pass_event.
CompliancePass(d, g, dt, reviewer, msg) ==
    LET id == ensured_id(checkins, d, dt)
        ensured == ensure_checkin(checkins, d, g, dt)
    IN  /\ id \in CheckinIds
        /\ drivers[d].streak_current < MaxStreak
        /\ checkins' = [ensured EXCEPT ![id] =
               sync_review_card_row(
                   review_row(@, "pass", reviewer, ReviewReason("pass"), clock), msg)]
        /\ drivers' = [drivers EXCEPT ![d] =
               update_after_pass(
                   [@ EXCEPT !.last_pass_at = review_last_pass(@, "pass", clock)])]
        /\ jobs' = cancel_followups_jobs(jobs, followup_jobs, id)
        /\ followup_jobs' = cancel_followups_index(followup_jobs, id)
        /\ tracking' = pass_event(tracking, d)
        /\ last' = Ret("compliance_pass", id)
        /\ UNCHANGED <<media, media_log, excuse_pending, clock, running, handlerVars,
                       ticks, fired, groupVars, promptVars, dashVars>>

StreakNext ==
    \/ Tick
    \/ NextDay
    \/ \E d \in DriverIds, g \in GroupIds, dt \in Dates : EnsureCheckin(d, g, dt)
    \/ \E id \in DOMAIN checkins : ResetCheckin(id)
    \/ \E d \in DriverIds, g \in GroupIds, dt \in Dates, r \in SkipReasons :
          SetExcusedUpdate(d, g, dt, r)
    \/ \E p \in excuse_pending : SetExcusedInsert(p)
    \/ \E d \in DriverIds, dt \in Dates, a \in ReviewActions, u \in ReviewerIds :
          ReviewBegin(d, DefaultGroup, dt, a, u)
    \/ \E p \in reviewing, msg \in MessageIds : ReviewApply(p, msg)
    \/ \E d \in DriverIds, dt \in Dates, u \in ReviewerIds, msg \in MessageIds :
          FailReason(d, DefaultGroup, dt, u, msg)
    \/ \E d \in DriverIds, g \in GroupIds, dt \in Dates, u \in ReviewerIds,
          msg \in MessageIds : CompliancePass(d, g, dt, u, msg)
    \/ \E d \in DriverIds, a \in BOOLEAN : UpdateDriverProfile(d, a)
    \/ \E g \in GroupIds : MidnightReset(g)

StreakSpec == Init /\ [][StreakNext]_vars

----------------------------------------------------------------------------
(* The recurring jobs of a group (SchedulerService._schedule_group) and the  *)
(* restart of the process.  The job store of the AsyncIOScheduler and the    *)
(* index _followup_jobs live in memory; the groups table is persisted.  A    *)
(* recurring job is [id |-> <<kind, group>>, at |-> the time of day of its   *)
(* trigger in minutes]; the two-hourly compliance job has at = 0.            *)

TopicIds == {9}
AutosendTimes == {480, 540}
DigestTime == 1080

\* A row as /set_topic's INSERT leaves it: the columns it does not name at
\* their defaults.
GroupRow0(topic) ==
    [rolling_topic_id |-> topic, compliance_topic_id |-> NULL,
     autosend_enabled |-> FALSE, autosend_time |-> NULL, digest_time |-> DigestTime]

GroupJob(kind, g, at) == [id |-> <<kind, g>>, at |-> at]

\* Faulty variant of schedule_group: the compliance and weekly jobs are left out.
schedule_group_no_compliance(store, g, grp) ==
    {j \in store : j.id \notin {<<"digest", g>>, <<"reset", g>>, <<"autosend", g>>}}
    \cup {GroupJob("digest", g, grp.digest_time), GroupJob("reset", g, 5)}
    \cup (IF grp.autosend_enabled /\ grp.autosend_time # NULL
          THEN {GroupJob("autosend", g, grp.autosend_time)} ELSE {})

\* _schedule_group: add_job(..., replace_existing=True) for the digest, the
\* midnight reset, the autosend job when enabled with a time, and the
\* compliance and weekly jobs when the group has a compliance topic.
schedule_group(store, g, grp) ==
    LET armed ==
            {GroupJob("digest", g, grp.digest_time), GroupJob("reset", g, 5)}
            \cup (IF grp.autosend_enabled /\ grp.autosend_time # NULL
                  THEN {GroupJob("autosend", g, grp.autosend_time)} ELSE {})
            \cup (IF grp.compliance_topic_id # NULL
                  THEN {GroupJob("compliance", g, 0), GroupJob("weekly", g, 360)}
                  ELSE {})
    IN  {j \in store : \A k \in armed : j.id # k.id} \cup armed

\* _remove_group_jobs
remove_group_jobs(store, g) == {j \in store : j.id[2] # g}

\* refresh_group: _remove_group_jobs, fetch_group, _schedule_group
refresh_group(store, grps, g) ==
    IF g \in DOMAIN grps
    THEN schedule_group(remove_group_jobs(store, g), g, grps[g])
    ELSE remove_group_jobs(store, g)

\* initialize: _schedule_group for every row of SELECT * FROM groups, on the
\* empty store of a new AsyncIOScheduler.
RECURSIVE initialize_from(_, _, _)
initialize_from(store, grps, todo) ==
    IF todo = {} THEN store
    ELSE LET g == CHOOSE x \in todo : TRUE
         IN  initialize_from(schedule_group(store, g, grps[g]), grps, todo \ {g})

initialize(grps) == initialize_from({}, grps, DOMAIN grps)

\* /set_topic: the groups row is inserted, or its topic rewritten; refresh_group.
SetTopic(g, topic) ==
    LET saved == IF g \in DOMAIN groups
                 THEN [groups EXCEPT ![g].rolling_topic_id = topic]
                 ELSE groups @@ (g :> GroupRow0(topic))
    IN  /\ groups' = saved
        /\ group_jobs' = refresh_group(group_jobs, saved, g)
        /\ last' = Ret("set_topic", g)
        /\ UNCHANGED <<ledgerVars, clock, schedVars, handlerVars, complianceVars,
                       promptVars, dashVars, refreshing>>

\* /set_compliance_topic, in a group that has its row.
SetComplianceTopic(g, topic) ==
    LET saved == [groups EXCEPT ![g].compliance_topic_id = topic]
    IN  /\ g \in DOMAIN groups
        /\ groups' = saved
        /\ group_jobs' = refresh_group(group_jobs, saved, g)
        /\ last' = Ret("set_compliance_topic", g)
        /\ UNCHANGED <<ledgerVars, clock, schedVars, handlerVars, complianceVars,
                       promptVars, dashVars, refreshing>>

\* /autosend on HH:MM (at # NULL) and /autosend off (at = NULL).
SetAutosend(g, at) ==
    LET saved == [groups EXCEPT ![g].autosend_enabled = (at # NULL),
                                ![g].autosend_time = at]
    IN  /\ g \in DOMAIN groups
        /\ groups' = saved
        /\ group_jobs' = refresh_group(group_jobs, saved, g)
        /\ last' = Ret("autosend_command", g)
        /\ UNCHANGED <<ledgerVars, clock, schedVars, handlerVars, complianceVars,
                       promptVars, dashVars, refreshing>>

\* The process stops and starts again (main): what lived in memory is gone,
\* the job store and the follow-up index with the calls in flight, and
\* initialize arms the recurring jobs from the groups table.  The count handed
\* back is the number of follow-up jobs the old store held.
Restart ==
    /\ jobs' = {}
    /\ followup_jobs' = [c \in CheckinIds |-> << >>]
    /\ running' = {}
    /\ excuse_pending' = {}
    /\ reviewing' = {}
    /\ ticks' = {}
    /\ resolving' = {}
    /\ refreshing' = {}
    /\ group_jobs' = initialize(groups)
    /\ last' = [op |-> "restart", id |-> 0, count |-> Cardinality(jobs)]
    /\ UNCHANGED <<checkins, drivers, media, media_log, clock, tracking, fired,
                   groups, notes, prompts_sent, dashVars>>

MaxRefreshing == 2

\* /autosend on HH:MM (at # NULL) and /autosend off (at = NULL), up to the
\* return of its UPDATE of groups; refresh_group is still to run.
AutosendUpdate(g, at) ==
    /\ g \in DOMAIN groups
    /\ Cardinality(refreshing) < MaxRefreshing
    /\ groups' = [groups EXCEPT ![g].autosend_enabled = (at # NULL),
                                ![g].autosend_time = at]
    /\ refreshing' = refreshing \cup {[group_id |-> g, pc |-> "remove", group |-> << >>]}
    /\ last' = Ret("autosend_update", g)
    /\ UNCHANGED <<ledgerVars, clock, schedVars, handlerVars, complianceVars, group_jobs,
                   promptVars, dashVars>>

\* /set_compliance_topic up to the return of its UPDATE of groups.
ComplianceTopicUpdate(g, topic) ==
    /\ g \in DOMAIN groups
    /\ Cardinality(refreshing) < MaxRefreshing
    /\ groups' = [groups EXCEPT ![g].compliance_topic_id = topic]
    /\ refreshing' = refreshing \cup {[group_id |-> g, pc |-> "remove", group |-> << >>]}
    /\ last' = Ret("compliance_topic_update", g)
    /\ UNCHANGED <<ledgerVars, clock, schedVars, handlerVars, complianceVars, group_jobs,
                   promptVars, dashVars>>

\* refresh_group up to the answer of fetch_group: _remove_group_jobs runs
\* without a pause, then the row is read as the table has it (a list of one
\* row, or the empty list for None).
RefreshBegin(r) ==
    LET g == r.group_id
    IN  /\ r \in refreshing /\ r.pc = "remove"
        /\ group_jobs' = remove_group_jobs(group_jobs, g)
        /\ refreshing' = (refreshing \ {r}) \cup
               {[r EXCEPT !.pc = "schedule",
                          !.group = IF g \in DOMAIN groups THEN <<groups[g]>> ELSE << >>]}
        /\ last' = Ret("remove_group_jobs", g)
        /\ UNCHANGED <<ledgerVars, clock, schedVars, handlerVars, complianceVars, groups,
                       promptVars, dashVars>>

\* refresh_group from the answer of fetch_group on: if group:
\* self._schedule_group(group), with the row as it was read.
RefreshEnd(r) ==
    LET g == r.group_id
    IN  /\ r \in refreshing /\ r.pc = "schedule"
        /\ group_jobs' = IF r.group # << >> THEN schedule_group(group_jobs, g, r.group[1])
                         ELSE group_jobs
        /\ refreshing' = refreshing \ {r}
        /\ last' = Ret("refresh_group", g)
        /\ UNCHANGED <<ledgerVars, clock, schedVars, handlerVars, complianceVars, groups,
                       promptVars, dashVars>>

RefreshNext ==
    \/ \E g \in GroupIds, topic \in TopicIds : SetTopic(g, topic)
    \/ \E g \in GroupIds, at \in AutosendTimes \cup {NULL} : AutosendUpdate(g, at)
    \/ \E g \in GroupIds, topic \in TopicIds : ComplianceTopicUpdate(g, topic)
    \/ \E r \in refreshing : RefreshBegin(r)
    \/ \E r \in refreshing : RefreshEnd(r)

RefreshSpec == Init /\ [][RefreshNext]_vars

RestartNext ==
    \/ \E d \in AdvanceSteps : Advance(d)
    \/ \E d \in DriverIds, dt \in Dates : EnsureCheckin(d, DefaultGroup, dt)
    \/ \E c \in CheckinIds : ScheduleFollowups(c)
    \/ \E j \in jobs : JobDispatch(j)
    \/ \E r \in running : JobStart(r)
    \/ \E r \in running : JobFetch(r)
    \/ \E r \in running, paused \in BOOLEAN : JobCancel(r, paused)
    \/ \E r \in running, sent \in BOOLEAN : JobSend(r, sent)
    \/ \E g \in GroupIds, topic \in TopicIds : SetTopic(g, topic)
    \/ \E g \in GroupIds, topic \in TopicIds : SetComplianceTopic(g, topic)
    \/ \E g \in GroupIds, at \in AutosendTimes \cup {NULL} : SetAutosend(g, at)
    \/ Restart

RestartSpec == Init /\ [][RestartNext]_vars

----------------------------------------------------------------------------
(* Comment prompts (app/handlers/compliance.py): the comment button posts a  *)
(* prompt and stores its message id on the driver's tracking row; a reply to *)
(* a message is resolved through that id.  Telegram numbers the messages of  *)
(* a chat upwards, so every prompt has an id of its own.  Updates are        *)
(* handled as tasks of their own, so two replies can be in flight together;  *)
(* resolve_comment_prompt is a SELECT and then an UPDATE.                    *)

MaxPrompts == 2

ReplyIds == {1, 2}

\* store_comment_prompt: INSERT ... ON CONFLICT (driver_id) DO UPDATE SET
\* last_comment_thread_id
store_comment_prompt(tr, d, message_id) ==
    IF d \in DOMAIN tr
    THEN [tr EXCEPT ![d].last_comment_thread_id = message_id]
    ELSE tr @@ (d :> [TrackingRow0 EXCEPT !.last_comment_thread_id = message_id])

\* SELECT driver_id FROM compliance_tracking WHERE last_comment_thread_id = $1
prompt_owners(tr, message_id) ==
    {d \in DOMAIN tr : tr[d].last_comment_thread_id = message_id}

\* UPDATE compliance_tracking SET last_comment_thread_id = NULL WHERE driver_id = $1
clear_comment_prompt(tr, d) ==
    IF d \in DOMAIN tr THEN [tr EXCEPT ![d].last_comment_thread_id = NULL] ELSE tr

\* _handle_compliance_comment: the prompt is posted and its id stored.
CommentPrompt(d) ==
    /\ prompts_sent < MaxPrompts
    /\ prompts_sent' = prompts_sent + 1
    /\ tracking' = store_comment_prompt(tracking, d, prompts_sent + 1)
    /\ last' = Ret("store_comment_prompt", d)
    /\ UNCHANGED <<ledgerVars, clock, schedVars, handlerVars, ticks, fired, groupVars,
                   resolving, notes, dashVars>>

\* handle_comment_reply up to the SELECT of resolve_comment_prompt: reply is
\* the incoming message, message_id the message it replies to.  With no
\* owner the handler returns.
ReplySelect(reply, message_id) ==
    LET owners == prompt_owners(tracking, message_id)
    IN  /\ message_id \in 1..prompts_sent
        /\ \A p \in resolving : p.reply # reply
        /\ \A n \in notes : n.reply # reply
        /\ IF owners = {}
           THEN /\ resolving' = resolving
                /\ last' = Ret("resolve_none", 0)
           ELSE /\ resolving' = resolving \cup
                       {[reply |-> reply, message_id |-> message_id,
                         driver_id |-> CHOOSE d \in owners : TRUE]}
                /\ last' = Ret("resolve_select", CHOOSE d \in owners : TRUE)
        /\ UNCHANGED <<ledgerVars, clock, schedVars, handlerVars, complianceVars,
                       groupVars, notes, prompts_sent, dashVars>>

\* The UPDATE of resolve_comment_prompt, which returns the driver, and the
\* rest of handle_comment_reply: record_comment.
ReplyUpdate(p) ==
    /\ p \in resolving
    /\ resolving' = resolving \ {p}
    /\ tracking' = clear_comment_prompt(tracking, p.driver_id)
    /\ notes' = notes \cup {[driver_id |-> p.driver_id, reply |-> p.reply,
                             message_id |-> p.message_id]}
    /\ last' = Ret("record_comment", p.driver_id)
    /\ UNCHANGED <<ledgerVars, clock, schedVars, handlerVars, ticks, fired, groupVars,
                   prompts_sent, dashVars>>

PromptNext ==
    \/ Tick
    \/ \E d \in DriverIds : CommentPrompt(d)
    \/ \E r \in ReplyIds, m \in 1..MaxPrompts : ReplySelect(r, m)
    \/ \E p \in resolving : ReplyUpdate(p)
    \/ \E d \in DriverIds : PassEvent(d)
    \/ ClearTracking

PromptSpec == Init /\ [][PromptNext]_vars

----------------------------------------------------------------------------
(* Failures and missing rows in the ledger (app/services/checks.py,          *)
(* app/db.py).  A statement of record_media can fail; Database.transaction   *)
(* then rolls back and re-raises.  The operations that take a checkin id can *)
(* be given an id no row has.                                                *)

RecordSteps == 1..3
MissingIds == 1..2

\* record_media's transaction after its first `done` statements: the upsert,
\* the INSERT INTO media, the UPDATE.
record_media_partial(rows, med, d, g, dt, file, now, done) ==
    LET id == ensured_id(rows, d, dt)
        upserted == ensure_checkin(rows, d, g, dt)
    IN  [checkins |-> IF done >= 3
                      THEN [upserted EXCEPT ![id] = record_media_row(@, now)]
                      ELSE IF done >= 1 THEN upserted ELSE rows,
         media |-> IF done >= 2 THEN med \cup {<<id, file>>} ELSE med]

\* Faulty variant of transaction_rollback: every statement is committed as it
\* runs.
transaction_autocommit(before, partial) == partial

\* Database.transaction: except Exception: await tx.rollback(); raise
transaction_rollback(before, partial) == before

\* record_media when its statement number `step` fails: the statements before
\* it have run inside the transaction, which is rolled back; the call raises.
\* The count handed back is the step.
RecordMediaFailed(d, g, dt, file, step) ==
    LET partial == record_media_partial(checkins, media, d, g, dt, file, clock, step - 1)
        after == transaction_rollback([checkins |-> checkins, media |-> media], partial)
    IN  /\ checkins' = after.checkins
        /\ media' = after.media
        /\ last' = [op |-> "record_media_raise", id |-> 0, count |-> step]
        /\ UNCHANGED <<drivers, media_log, clock, excuse_pending, schedVars, handlerVars,
                       complianceVars, groupVars, promptVars, dashVars>>

\* mark_notified with an id no row has: the UPDATE returns no record and
\* _record_to_checkin(None) raises TypeError at record["id"].
MarkNotifiedMissing(id) ==
    /\ id \notin DOMAIN checkins
    /\ checkins' = mark_notified(checkins, id, clock)
    /\ last' = Ret("mark_notified_raise", 0)
    /\ UNCHANGED <<drivers, media, media_log, clock, excuse_pending, schedVars,
                   handlerVars, complianceVars, groupVars, promptVars, dashVars>>

\* reset_checkin with an id no row has: raise ValueError("Checkin not found")
\* after the SELECT.
ResetCheckinMissing(id) ==
    /\ id \notin DOMAIN checkins
    /\ last' = Ret("reset_checkin_raise", 0)
    /\ UNCHANGED <<ledgerVars, clock, schedVars, handlerVars, complianceVars,
                   groupVars, promptVars, dashVars>>

\* fetch_checkin: the row of (driver, group, date), or None.
FetchCheckin(d, g, dt) ==
    LET hit == RowsOfKey(checkins, d, g, dt)
    IN  /\ last' = Ret("fetch_checkin", IF hit # {} THEN CHOOSE i \in hit : TRUE ELSE 0)
        /\ UNCHANGED <<ledgerVars, clock, schedVars, handlerVars, complianceVars,
                       groupVars, promptVars, dashVars>>

FaultNext ==
    \/ Tick
    \/ \E d \in DriverIds, g \in GroupIds, dt \in Dates : EnsureCheckin(d, g, dt)
    \/ \E d \in DriverIds, dt \in Dates, f \in FileIds : RecordMedia(d, DefaultGroup, dt, f)
    \/ \E d \in DriverIds, g \in GroupIds, dt \in Dates, f \in FileIds, k \in RecordSteps :
          RecordMediaFailed(d, g, dt, f, k)
    \/ \E id \in DOMAIN checkins : MarkNotified(id)
    \/ \E id \in MissingIds : MarkNotifiedMissing(id)
    \/ \E id \in DOMAIN checkins : ResetCheckin(id)
    \/ \E id \in MissingIds : ResetCheckinMissing(id)
    \/ \E d \in DriverIds, dt \in Dates, s \in ReviewStatuses, u \in ReviewerIds :
          UpdateReviewStatus(d, DefaultGroup, dt, s, u)
    \/ \E d \in DriverIds, dt \in Dates : ReopenCheckin(d, DefaultGroup, dt)
    \/ \E d \in DriverIds, dt \in Dates : FetchCheckin(d, DefaultGroup, dt)

FaultSpec == Init /\ [][FaultNext]_vars

----------------------------------------------------------------------------
(* A failing send in the pass handler (app/handlers/review.py).              *)
(* sync_review_card posts or edits the review card with no try around        *)
(* bot.send_message and re-raises a TelegramBadRequest it does not know; the *)
(* handler awaits it between cancel_followups and handle_pass_event.         *)

\* handle_review_action, pass, from update_review_status on, when
\* sync_review_card raises: update_review_status, update_after_pass and
\* cancel_followups have run, the exception leaves the handler, and neither
\* set_review_message nor handle_pass_event is reached.
ReviewApplyCardFailed(p) ==
    LET d == p.driver_id
        hit == RowsOfKey(checkins, d, p.group_id, p.date)
        id == CHOOSE i \in hit : TRUE
    IN  /\ p \in reviewing
        /\ p.action = "pass"
        /\ hit # {}
        /\ id \in CheckinIds
        /\ drivers[d].streak_current < MaxStreak
        /\ reviewing' = reviewing \ {p}
        /\ checkins' = [i \in DOMAIN checkins |->
               IF i \in hit
               THEN review_row(checkins[i], "pass", p.reviewer, ReviewReason("pass"), clock)
               ELSE checkins[i]]
        /\ drivers' = [drivers EXCEPT ![d] =
               review_streak([@ EXCEPT !.last_pass_at = review_last_pass(@, "pass", clock)],
                             TRUE, "pass")]
        /\ jobs' = cancel_followups_jobs(jobs, followup_jobs, id)
        /\ followup_jobs' = cancel_followups_index(followup_jobs, id)
        /\ last' = Ret("review_pass_card_raise", id)
        /\ UNCHANGED <<media, media_log, clock, excuse_pending, running, complianceVars,
                       groupVars, promptVars, dashVars>>

SendFaultNext ==
    \/ \E d \in DriverIds, dt \in Dates : EnsureCheckin(d, DefaultGroup, dt)
    \/ \E c \in CheckinIds : ScheduleFollowups(c)
    \/ \E d \in DriverIds, chat \in ChatIds : LinkChat(d, chat)
    \/ \E d \in DriverIds, st \in ComplianceStatuses : TickBegin("job", d, st)
    \/ \E t \in ticks : TickUpsert(t)
    \/ \E t \in ticks : TickDriver(t)
    \/ \E t \in ticks : TickDispatch(t)
    \/ \E d \in DriverIds, dt \in Dates, u \in ReviewerIds :
          ReviewBegin(d, DefaultGroup, dt, "pass", u)
    \/ \E p \in reviewing, msg \in MessageIds : ReviewApply(p, msg)
    \/ \E p \in reviewing : ReviewApplyCardFailed(p)

SendFaultSpec == Init /\ [][SendFaultNext]_vars

----------------------------------------------------------------------------
(* The dashboard (dashboard/main.py, dashboard/services/metrics.py): three   *)
(* GET endpoints behind HTTP basic auth, each answering with what its query  *)
(* returns, passed through a response model.  CURRENT_DATE and date.today()  *)
(* are the local date of the clock.  A list in an answer is kept as the set  *)
(* of its items.                                                             *)

BasicAuth == <<"test-user", "test-pass">>
Credentials == {<<"test-user", "test-pass">>, <<"test-user", "wrong">>,
                <<"other", "test-pass">>}
RequestDriverIds == 1..2
RecentDays == 7

\* require_basic_auth: compare_digest of the user and of the password
require_basic_auth(c) == c[1] = BasicAuth[1] /\ c[2] = BasicAuth[2]

\* fetch_compliance_summary: len(list_active_drivers), the COUNT(*) FILTER
\* columns over the rows of CURRENT_DATE, and the time of the answer.
fetch_compliance_summary(drvs, rows, today, now) ==
    [total_drivers |-> Cardinality({d \in DOMAIN drvs : drvs[d].active}),
     pass_count |-> Cardinality({i \in DOMAIN rows :
                        rows[i].date = today /\ rows[i].status = "pass"}),
     pending_count |-> Cardinality({i \in DOMAIN rows :
                        rows[i].date = today /\ rows[i].status \in OpenStatuses}),
     generated_at |-> now]

\* fetch_pending_drivers: the latest row of each active driver, when it is
\* pending or submitted, with the driver's passes of the last seven days.
fetch_pending_drivers(drvs, rows, today) ==
    LET of(d) == {i \in DOMAIN rows : rows[i].driver_id = d}
        latest(d) == CHOOSE i \in of(d) : \A j \in of(d) : rows[j].date <= rows[i].date
        passes(d) == {i \in of(d) : rows[i].status = "pass"
                                    /\ rows[i].date >= today - (RecentDays - 1)}
    IN  {[driver_id |-> d, notify_chat_id |-> drvs[d].notify_chat_id,
          check_date |-> rows[latest(d)].date, status |-> rows[latest(d)].status,
          pass_count_7d |-> Cardinality(passes(d)),
          last_notification |-> rows[latest(d)].sent_at] :
            d \in {e \in DOMAIN drvs : /\ of(e) # {}
                                       /\ rows[latest(e)].status \in OpenStatuses
                                       /\ drvs[e].active}}

\* checks.list_recent_checkins: WHERE driver_id = $1 AND date >= today - (days - 1)
list_recent_checkins(rows, d, today, days) ==
    IF days <= 0 THEN {}
    ELSE {i \in DOMAIN rows : rows[i].driver_id = d /\ rows[i].date >= today - (days - 1)}

\* DriverCheckinModel(id=checkin.id, date=..., status=..., ...)
DriverCheckinModel(id, r) ==
    [id |-> id, date |-> r.date, status |-> r.status, sent_at |-> r.sent_at,
     responded_at |-> r.responded_at, reviewed_at |-> r.reviewed_at,
     reason |-> r.reason, group_id |-> r.group_id]

\* Faulty variant of api_driver_checkins: an unknown driver is answered with
\* an empty history.
api_driver_checkins_no_404(drvs, rows, d, today) ==
    [status |-> 200,
     body |-> [driver_id |-> d,
               checkins |-> {DriverCheckinModel(i, rows[i]) :
                                i \in list_recent_checkins(rows, d, today, RecentDays)}]]

\* api_driver_checkins: find_driver_by_id; 404 when None; otherwise the
\* driver's id and fetch_driver_checkins(days=7) as DriverCheckinModel items.
api_driver_checkins(drvs, rows, d, today) ==
    IF d \notin DOMAIN drvs
    THEN [status |-> 404, body |-> "Driver not found"]
    ELSE [status |-> 200,
          body |-> [driver_id |-> d,
                    checkins |-> {DriverCheckinModel(i, rows[i]) :
                                     i \in list_recent_checkins(rows, d, today, RecentDays)}]]

\* A GET request: the dependency require_basic_auth answers 401 before the
\* endpoint runs; the endpoint only reads.
DashboardGet(path, c, d, answer) ==
    /\ response' = IF require_basic_auth(c)
                   THEN [path |-> path, credentials |-> c, driver_id |-> d,
                         status |-> answer.status, body |-> answer.body]
                   ELSE [path |-> path, credentials |-> c, driver_id |-> d,
                         status |-> 401, body |-> "Invalid authentication credentials"]
    /\ last' = Ret(path, d)
    /\ UNCHANGED <<ledgerVars, clock, schedVars, handlerVars, complianceVars, groupVars,
                   promptVars>>

\* GET /api/compliance/summary
ApiComplianceSummary(c) ==
    DashboardGet("api_compliance_summary", c, 0,
        [status |-> 200,
         body |-> fetch_compliance_summary(drivers, checkins, local_date(clock), clock)])

\* GET /api/compliance/pending
ApiCompliancePending(c) ==
    DashboardGet("api_compliance_pending", c, 0,
        [status |-> 200,
         body |-> fetch_pending_drivers(drivers, checkins, local_date(clock))])

\* GET /api/drivers/{driver_id}/checkins
ApiDriverCheckins(c, d) ==
    DashboardGet("api_driver_checkins", c, d,
        api_driver_checkins(drivers, checkins, d, local_date(clock)))

DashboardNext ==
    \/ Tick
    \/ NextDay
    \/ \E d \in DriverIds, dt \in Dates : EnsureCheckin(d, DefaultGroup, dt)
    \/ \E id \in DOMAIN checkins : MarkNotified(id)
    \/ \E d \in DriverIds, dt \in Dates, s \in ReviewStatuses, u \in ReviewerIds :
          UpdateReviewStatus(d, DefaultGroup, dt, s, u)
    \/ \E d \in DriverIds, a \in BOOLEAN : UpdateDriverProfile(d, a)
    \/ \E d \in DriverIds : PassEvent(d)
    \/ \E c \in Credentials : ApiComplianceSummary(c)
    \/ \E c \in Credentials : ApiCompliancePending(c)
    \/ \E c \in Credentials, d \in RequestDriverIds : ApiDriverCheckins(c, d)

DashboardSpec == Init /\ [][DashboardNext]_vars

----------------------------------------------------------------------------
(* The classification of a driver in a compliance report                     *)
(* (app/services/compliance.py, _evaluate_driver).  The checkin handed to it *)
(* is the driver's latest row of the report's group, or None; an optional    *)
(* row is a list of one row or the empty list.                               *)

\* The reasons a driver can give with the skip buttons (SKIP_REASONS), and
\* those of them that contain one of the EXCEPTION_KEYWORDS.
EvaluateReasons == {"Off today", "In shop"}
ExceptionReasons == {"In shop", "No trailer"}

\* _fetch_latest_checkins: DISTINCT ON (driver_id) ... WHERE group_id = $1
\* ORDER BY driver_id, date DESC
latest_checkin(rows, d, g) ==
    LET of == {i \in DOMAIN rows : rows[i].driver_id = d /\ rows[i].group_id = g}
    IN  IF of = {} THEN << >>
        ELSE <<rows[CHOOSE i \in of : \A j \in of : rows[j].date <= rows[i].date]>>

\* Faulty variant of evaluate_driver: a pass counts whenever it was given.
evaluate_driver_any_pass(drv, checkin, now) ==
    LET recent == drv.last_pass_at # NULL /\ now - drv.last_pass_at <= REPORT_WINDOW
    IN  IF checkin # << >>
        THEN LET c == checkin[1]
             IN  IF c.reason \in ExceptionReasons THEN "exception"
                 ELSE IF c.status = "pass" /\ c.reviewed_at # NULL THEN "compliant"
                 ELSE IF c.status = "excused" THEN "exception"
                 ELSE IF c.status = "needs_fix" THEN "exception"
                 ELSE IF c.status = "fail" THEN "non_compliant"
                 ELSE IF c.status \in OpenStatuses /\ recent THEN "compliant"
                 ELSE "non_compliant"
        ELSE IF recent THEN "compliant" ELSE "non_compliant"

\* _evaluate_driver, the status it returns
evaluate_driver(drv, checkin, now) ==
    LET recent == drv.last_pass_at # NULL /\ now - drv.last_pass_at <= REPORT_WINDOW
    IN  IF checkin # << >>
        THEN LET c == checkin[1]
             IN  IF c.reason \in ExceptionReasons THEN "exception"
                 ELSE IF /\ c.status = "pass" /\ c.reviewed_at # NULL
                         /\ now - c.reviewed_at <= REPORT_WINDOW THEN "compliant"
                 ELSE IF c.status = "excused" THEN "exception"
                 ELSE IF c.status = "needs_fix" THEN "exception"
                 ELSE IF c.status = "fail" THEN "non_compliant"
                 ELSE IF c.status \in OpenStatuses /\ recent THEN "compliant"
                 ELSE "non_compliant"
        ELSE IF recent THEN "compliant" ELSE "non_compliant"

\* send_hourly_report, for one driver of the report of group g: the entry's
\* status as _evaluate_driver gives it, and as it stands after a
\* non_compliant driver whose linked chat is flagged paused was reclassified.
EvaluateDriver(d, g, paused) ==
    LET status == evaluate_driver(drivers[d], latest_checkin(checkins, d, g), clock)
    IN  /\ drivers[d].active
        /\ last' = [op |-> "evaluate_driver", id |-> d, count |-> g, status |-> status,
                    entry |-> IF /\ status = "non_compliant" /\ paused
                                 /\ drivers[d].notify_chat_id # NULL
                              THEN "exception" ELSE status]
        /\ UNCHANGED <<ledgerVars, clock, schedVars, handlerVars, complianceVars, groupVars,
                       promptVars, dashVars>>

\* Time passing between two reports: a minute, at most MaxClock of them in
\* a row, or the length of the report window.
MaxEvaluateClock == 1442
EvaluateAdvance(step) ==
    /\ clock + step <= MaxEvaluateClock
    /\ step = 1 => clock % REPORT_WINDOW < MaxClock
    /\ clock' = clock + step
    /\ last' = Ret("advance", 0)
    /\ UNCHANGED <<ledgerVars, schedVars, handlerVars, complianceVars, groupVars, promptVars, dashVars>>

EvaluateNext ==
    \/ \E step \in {1, REPORT_WINDOW} : EvaluateAdvance(step)
    \/ \E d \in DriverIds, g \in GroupIds, dt \in Dates : EnsureCheckin(d, g, dt)
    \/ \E d \in DriverIds, dt \in Dates, s \in ReviewStatuses, u \in ReviewerIds :
          UpdateReviewStatus(d, DefaultGroup, dt, s, u)
    \/ \E d \in DriverIds, dt \in Dates, r \in EvaluateReasons :
          SetExcusedUpdate(d, DefaultGroup, dt, r)
    \/ \E p \in excuse_pending : SetExcusedInsert(p)
    \/ \E d \in DriverIds, dt \in Dates : ReopenCheckin(d, DefaultGroup, dt)
    \/ \E d \in DriverIds, chat \in ChatIds : LinkChat(d, chat)
    \/ \E d \in DriverIds, paused \in BOOLEAN : EvaluateDriver(d, DefaultGroup, paused)

EvaluateSpec == Init /\ [][EvaluateNext]_vars

----------------------------------------------------------------------------
(* The pass handlers beside the follow-up jobs: a reviewer's pass can come   *)
(* at any point of a follow-up job's run.                                    *)

PassNext ==
    \/ \E d \in AdvanceSteps : Advance(d)
    \/ \E d \in DriverIds, dt \in Dates : EnsureCheckin(d, DefaultGroup, dt)
    \/ \E c \in CheckinIds : ScheduleFollowups(c)
    \/ \E j \in jobs : JobDispatch(j)
    \/ \E r \in running : JobStart(r)
    \/ \E r \in running : JobFetch(r)
    \/ \E r \in running, paused \in BOOLEAN : JobCancel(r, paused)
    \/ \E r \in running, sent \in BOOLEAN : JobSend(r, sent)
    \/ \E d \in DriverIds, dt \in Dates, u \in ReviewerIds :
          ReviewBegin(d, DefaultGroup, dt, "pass", u)
    \/ \E p \in reviewing, msg \in MessageIds : ReviewApply(p, msg)
    \/ \E d \in DriverIds, dt \in Dates, u \in ReviewerIds, msg \in MessageIds :
          CompliancePass(d, DefaultGroup, dt, u, msg)

PassSpec == Init /\ [][PassNext]_vars

----------------------------------------------------------------------------
(* Properties of the follow-up scheduler *)

NotInIndex(c) == {j \in JobsOf(jobs, c) : j.id \notin Range(followup_jobs[c])}

\* C1: schedule_followups replaces what is outstanding: right after the call
\* the checkin has exactly two jobs in the store, slot 1 at now + 15 minutes
\* and slot 2 at now + 50 minutes, never three or four, and the index lists
\* exactly those two.
C1_ScheduleReplaces ==
    [][last'.op = "schedule_followups" =>
        LET c == last'.id IN
        /\ JobsOf(jobs', c) = {[id |-> <<c, 1>>, run_date |-> clock + 15],
                               [id |-> <<c, 2>>, run_date |-> clock + 50]}
        /\ Cardinality(JobsOf(jobs', c)) = 2
        /\ followup_jobs'[c] = <<(<<c, 1>>), (<<c, 2>>)>>]_vars

\* Witness of C1: schedule_followups called, at a later time, for a checkin
\* that had two jobs outstanding, which now has the two new ones.
C1_Witness ==
    /\ last.op = "schedule_followups"
    /\ last.count = 2
    /\ clock > 0
    /\ JobsOf(jobs, last.id) = {[id |-> <<last.id, 1>>, run_date |-> clock + 15],
                                [id |-> <<last.id, 2>>, run_date |-> clock + 50]}

\* C2: in every reachable state, whatever the interleaving of
\* schedule_followups, cancel_followups and the steps of firing follow-up
\* jobs, a checkin has at most two follow-up jobs in the store and at most two
\* job ids in the index.
C2_AtMostTwoJobs ==
    \A c \in CheckinIds :
        /\ Cardinality(JobsOf(jobs, c)) <= 2
        /\ Len(followup_jobs[c]) <= 2

\* Witness of C2: schedule_followups ran between the dispatch of slot 1 and the
\* first step of its coroutine, which then struck the new slot 1 from the
\* index: two jobs are armed and the index lists one of them.
C2_Witness ==
    \E c \in CheckinIds :
        /\ Cardinality(JobsOf(jobs, c)) = 2
        /\ Len(followup_jobs[c]) = 1
        /\ NotInIndex(c) # {}

\* C3 (as claimed): when cancel_followups returns, called by a handler or by a
\* follow-up job for itself, no follow-up job of that checkin is armed; and a
\* call that finds nothing outstanding changes neither the store nor the index.
C3_CancelLeavesNoneArmed ==
    [][last'.op \in {"cancel_followups", "followup_cancel"} =>
        /\ JobsOf(jobs', last'.id) = {}
        /\ followup_jobs'[last'.id] = << >>
        /\ (JobsOf(jobs, last'.id) = {} /\ followup_jobs[last'.id] = << >>)
              => (jobs' = jobs /\ followup_jobs' = followup_jobs)]_vars

----------------------------------------------------------------------------
(* Properties of the ledger *)

\* The row an operation found: the row with that id before the step, or the
\* freshly inserted default row when the step created it.
RowBefore(id) ==
    IF id \in DOMAIN checkins THEN checkins[id]
    ELSE DefaultRow(checkins'[id].driver_id, checkins'[id].group_id, checkins'[id].date)

OtherRowsUnchanged(id) ==
    \A j \in DOMAIN checkins : j # id => checkins'[j] = checkins[j]

\* C4: after any sequence of ledger operations, every checkin whose status is
\* pass, fail, needs_fix or excused has reviewed_at set.
C4_TerminalHasReviewedAt ==
    \A i \in DOMAIN checkins :
        checkins[i].status \in TerminalStatuses => checkins[i].reviewed_at # NULL

\* Witness of C4: media arrived on a row that a reviewer or a skip had closed.
C4_Witness ==
    /\ last.op = "record_media"
    /\ checkins[last.id].status \in TerminalStatuses
    /\ checkins[last.id].reviewed_at # NULL

\* C5: media_count is never negative, and from one state to the next it only
\* decreases in a reset_checkin of that row, which sets it to 0.
C5_MediaCountMonotone ==
    /\ [](\A i \in DOMAIN checkins : checkins[i].media_count >= 0)
    /\ [][\A i \in DOMAIN checkins :
            checkins'[i].media_count < checkins[i].media_count =>
                /\ last'.op = "reset_checkin"
                /\ last'.id = i
                /\ checkins'[i].media_count = 0]_vars

\* Witness of C5: a reset that found media on the row and left none.
C5_Witness ==
    /\ last.op = "reset_checkin"
    /\ last.count > 0
    /\ checkins[last.id].media_count = 0

\* C6: at most one row exists for a (driver, group, date), also while
\* set_excused calls are between their UPDATE and their INSERT.
C6_OneRowPerDay ==
    \A i, j \in DOMAIN checkins :
        (/\ checkins[i].driver_id = checkins[j].driver_id
         /\ checkins[i].group_id = checkins[j].group_id
         /\ checkins[i].date = checkins[j].date) => i = j

\* Witness of C6: a set_excused whose UPDATE had found no row reached its
\* INSERT after another call had created the row, and was rejected.
C6_Witness ==
    /\ last.op = "set_excused_raise"
    /\ Len(checkins) = 1

\* C7: reset_checkin of an existing row keeps that row (same id, driver, group
\* and date; no row added or removed), with status pending, media_count 0 and
\* reviewer, reason, reviewed_at, sent_at and responded_at cleared, and clears
\* the driver's last_pass_at.
C7_ResetClears ==
    [][last'.op = "reset_checkin" =>
        LET i == last'.id IN
        /\ i \in DOMAIN checkins
        /\ Len(checkins') = Len(checkins)
        /\ checkins'[i] = DefaultRow(checkins[i].driver_id, checkins[i].group_id,
                                     checkins[i].date)
        /\ OtherRowsUnchanged(i)
        /\ drivers'[checkins[i].driver_id].last_pass_at = NULL]_vars

\* Witness of C7: a reset of a row that had media, leaving it pending and the
\* driver without a last pass.
C7_Witness ==
    /\ last.op = "reset_checkin"
    /\ last.count = MaxMedia
    /\ checkins[last.id].status = "pending"
    /\ checkins[last.id].reviewed_at = NULL
    /\ drivers[checkins[last.id].driver_id].last_pass_at = NULL

LifecycleColumns(r) ==
    <<r.status, r.media_count, r.reviewer_user_id, r.reason,
      r.sent_at, r.responded_at, r.reviewed_at>>

\* C8: ensure_checkin is idempotent.  With no row of the day it adds one
\* pending row with media_count 0; with a row it returns that row and leaves
\* its status, media_count, reviewer, reason and timestamps as they were; a
\* second call changes nothing the first left.
C8_EnsureIdempotent ==
    /\ [](\A d \in DriverIds, g \in GroupIds, dt \in Dates :
            ensure_checkin(ensure_checkin(checkins, d, g, dt), d, g, dt)
                = ensure_checkin(checkins, d, g, dt))
    /\ [][last'.op = "ensure_checkin" =>
            LET i == last'.id IN
            /\ OtherRowsUnchanged(i)
            /\ IF i \in DOMAIN checkins
               THEN /\ Len(checkins') = Len(checkins)
                    /\ LifecycleColumns(checkins'[i]) = LifecycleColumns(checkins[i])
                    /\ checkins'[i].driver_id = checkins[i].driver_id
                    /\ checkins'[i].date = checkins[i].date
               ELSE /\ Len(checkins') = Len(checkins) + 1
                    /\ i = Len(checkins) + 1
                    /\ checkins'[i].status = "pending"
                    /\ checkins'[i].media_count = 0]_vars

\* Witness of C8: ensure_checkin returned a row that had already been reviewed.
C8_Witness ==
    /\ last.op = "ensure_checkin"
    /\ last.id \in DOMAIN checkins
    /\ checkins[last.id].status = "pass"
    /\ checkins[last.id].media_count > 0

\* C9: record_media on a pending or submitted row adds exactly 1 to
\* media_count, leaves the status submitted, sets responded_at only when it
\* was unset and clears the reason.
C9_RecordMediaOpen ==
    [][(last'.op = "record_media" /\ RowBefore(last'.id).status \in OpenStatuses) =>
        LET i == last'.id
            before == RowBefore(i)
        IN  /\ checkins'[i].media_count = before.media_count + 1
            /\ checkins'[i].status = "submitted"
            /\ checkins'[i].responded_at =
                   (IF before.responded_at = NULL THEN clock ELSE before.responded_at)
            /\ checkins'[i].reason = NoReason]_vars

\* Witness of C9: a second media item, later than the first, on a submitted row
\* whose responded_at is still the time of the first.
C9_Witness ==
    /\ last.op = "record_media"
    /\ last.count = 1
    /\ checkins[last.id].status = "submitted"
    /\ checkins[last.id].media_count = 2
    /\ checkins[last.id].responded_at # NULL
    /\ checkins[last.id].responded_at < clock

\* C10: record_media on a row in a terminal status leaves its status, reviewer
\* and reviewed_at as they were and adds 1 to media_count.
C10_RecordMediaTerminal ==
    [][(last'.op = "record_media" /\ RowBefore(last'.id).status \in TerminalStatuses) =>
        LET i == last'.id IN
        /\ i \in DOMAIN checkins
        /\ checkins'[i].status = checkins[i].status
        /\ checkins'[i].reviewer_user_id = checkins[i].reviewer_user_id
        /\ checkins'[i].reviewed_at = checkins[i].reviewed_at
        /\ checkins'[i].media_count = checkins[i].media_count + 1]_vars

\* Witness of C10: media recorded on a failed row, which is still failed and
\* still carries its reviewer.
C10_Witness ==
    /\ last.op = "record_media"
    /\ checkins[last.id].status = "fail"
    /\ checkins[last.id].reviewer_user_id \in ReviewerIds
    /\ checkins[last.id].media_count = last.count + 1

\* C11: of the record_media calls for a (driver, date) since its row was
\* created or last reset, run in whatever order the datastore serialises them,
\* exactly one returned first_media = True, namely the call that took
\* media_count from 0 to 1, and after N calls media_count is N.
C11_ExactlyOneFirst ==
    /\ [](\A k \in DriverIds \X Dates :
            /\ media_log[k].firsts = (IF media_log[k].calls = 0 THEN 0 ELSE 1)
            /\ \A i \in RowsOfDay(checkins, k[1], k[2]) :
                   checkins[i].media_count = media_log[k].calls
            /\ RowsOfDay(checkins, k[1], k[2]) = {} => media_log[k].calls = 0)
    /\ [][last'.op = "record_media" =>
            LET i == last'.id
                k == <<checkins'[i].driver_id, checkins'[i].date>>
            IN  /\ media_log'[k].calls = media_log[k].calls + 1
                /\ (media_log'[k].firsts = media_log[k].firsts + 1)
                       <=> (checkins'[i].media_count = 1)]_vars

\* Witness of C11: two calls on a row that a skip had excused; the second
\* returned first_media = False and the count is 2.
C11_Witness ==
    /\ last.op = "record_media"
    /\ last.count = 1
    /\ \E k \in DriverIds \X Dates :
          /\ media_log[k] = [calls |-> 2, firsts |-> 1]
          /\ \E i \in RowsOfDay(checkins, k[1], k[2]) :
                 checkins[i].media_count = 2 /\ checkins[i].status = "excused"

\* C14: when update_review_status has found its row, the driver's
\* last_pass_at is the time of the call if the new status is pass and is empty
\* if the new status is fail or needs_fix.
C14_ReviewSetsLastPass ==
    [][(last'.op = "update_review_status" /\ last'.id # 0) =>
        LET row == checkins'[last'.id]
            drv == drivers'[row.driver_id]
        IN  /\ row.status = "pass" => (drv.last_pass_at = clock /\ drv.last_pass_at # NULL)
            /\ row.status \in {"fail", "needs_fix"} => drv.last_pass_at = NULL]_vars

\* Witness of C14: a pass recorded at a later time than the start, stamped on
\* the driver.
C14_Witness ==
    /\ last.op = "update_review_status"
    /\ last.id # 0
    /\ checkins[last.id].status = "pass"
    /\ clock > 0
    /\ drivers[checkins[last.id].driver_id].last_pass_at = clock

\* C16 (as claimed): reopen_checkin of an existing row sets its status to
\* submitted and clears the reviewer and the reason, and nothing else of the
\* row: media_count, responded_at, sent_at and every other column stay.
C16_ReopenClearsOnlyReviewerReason ==
    [][(last'.op = "reopen_checkin" /\ last'.id # 0) =>
        LET i == last'.id IN
        /\ i \in DOMAIN checkins
        /\ checkins'[i] = [checkins[i] EXCEPT !.status = "submitted",
                                              !.reason = NoReason,
                                              !.reviewer_user_id = NULL]]_vars

\* C16 (amended): reopen_checkin of an existing row sets its status to
\* submitted and clears the reviewer, the reason and reviewed_at; media_count,
\* responded_at, sent_at and every other column of the row stay as they were,
\* and no other row changes.
C16_ReopenKeepsMedia ==
    [][(last'.op = "reopen_checkin" /\ last'.id # 0) =>
        LET i == last'.id IN
        /\ i \in DOMAIN checkins
        /\ checkins'[i] = [checkins[i] EXCEPT !.status = "submitted",
                                              !.reason = NoReason,
                                              !.reviewer_user_id = NULL,
                                              !.reviewed_at = NULL]
        /\ checkins'[i].media_count = checkins[i].media_count
        /\ checkins'[i].responded_at = checkins[i].responded_at
        /\ checkins'[i].sent_at = checkins[i].sent_at
        /\ Len(checkins') = Len(checkins)
        /\ OtherRowsUnchanged(i)]_vars

\* Witness of C16: a reopened row that had been notified and had media, now
\* submitted with no review time, its media and times still there.
C16_Witness ==
    /\ last.op = "reopen_checkin"
    /\ last.id # 0
    /\ checkins[last.id].status = "submitted"
    /\ checkins[last.id].reviewed_at = NULL
    /\ checkins[last.id].media_count = MaxMedia
    /\ checkins[last.id].sent_at # NULL
    /\ checkins[last.id].responded_at # NULL

\* C15 (as claimed): every set_excused call ends with a row of its (driver,
\* group, date) that is excused, carries the given reason, has reviewed_at set
\* to the time of the call and no reviewer, whether the row existed or not; a
\* call that found no row adds exactly one.
C15_SetExcusedYieldsExcused ==
    [][last'.op \in {"set_excused", "set_excused_raise"} =>
        /\ last'.id \in DOMAIN checkins'
        /\ LET row == checkins'[last'.id]
           IN  /\ row.status = "excused"
               /\ row.reason \in SkipReasons
               /\ row.reviewed_at = clock
               /\ row.reviewer_user_id = NULL
        /\ IF last'.id \in DOMAIN checkins
           THEN Len(checkins') = Len(checkins)
           ELSE Len(checkins') = Len(checkins) + 1]_vars

----------------------------------------------------------------------------
(* Properties of the handlers *)

NotifyOps == {"mark_notified", "process_notify", "review_notify", "autosend",
              "autosend_skip", "review_notify_skip"}

\* C12 (as claimed): once a row's sent_at is set, no later notification for
\* that driver and day (mark_notified, the notify button of the review card,
\* the /notify command, the autosend job) changes it.
C12_FirstNotifiedKept ==
    [][last'.op \in NotifyOps =>
        \A i \in DOMAIN checkins :
            checkins[i].sent_at # NULL => checkins'[i].sent_at = checkins[i].sent_at]_vars

\* C13: an update_review_status that finds no row of its (driver, group, date)
\* returns None, and the handler that called it leaves the ledger as it was:
\* no row is added or changed and the driver's last_pass_at and streak
\* counters stay.
C13_ReviewNotFoundChangesNothing ==
    [][(last'.op \in {"review_pass", "review_fix", "review_fail"} /\ last'.id = 0) =>
        /\ checkins' = checkins
        /\ drivers' = drivers
        /\ media' = media]_vars

\* Witness of C13: a pass pressed on the card of a row that the autosend job of
\* another group took over before the update ran; the driver has no streak
\* and no last pass.
C13_Witness ==
    /\ last.op = "review_pass"
    /\ last.id = 0
    /\ Len(checkins) = 1
    /\ checkins[1].group_id # DefaultGroup
    /\ \A d \in DriverIds : drivers[d].streak_current = 0 /\ drivers[d].last_pass_at = NULL

----------------------------------------------------------------------------
(* Properties of the compliance tracker *)

\* The report whose step was just taken.
SteppedTicks == ticks \ ticks'

\* The cooldown as the claims state it: no alert time on the entry the update
\* returned, or one at least 24 hours before the report's now.
CooledDown(stamp, now) == stamp = NULL \/ now - stamp >= 1440

\* C17: each evaluation of a driver leaves consecutive_reports at previous + 1
\* when the new classification is non_compliant and the stored one was
\* non_compliant, at 1 when the new one is non_compliant and the stored one
\* was not or the driver had no entry, and at 0 for any other classification.
C17_ConsecutiveReports ==
    [][last'.op = "upsert_state" =>
        LET d == last'.id
            new == tracking'[d].last_status
        IN  tracking'[d].consecutive_reports =
                IF new = "non_compliant"
                THEN IF d \in DOMAIN tracking /\ tracking[d].last_status = "non_compliant"
                     THEN tracking[d].consecutive_reports + 1
                     ELSE 1
                ELSE 0]_vars

\* Witness of C17: a third non_compliant evaluation in a row.
C17_Witness ==
    /\ last.op = "upsert_state"
    /\ last.count = 3
    /\ tracking[last.id].last_status = "non_compliant"
    /\ tracking[last.id].consecutive_reports = 3

\* C18 (as claimed): at a report that classified the driver non_compliant,
\* the nudge fires if and only if consecutive_reports after the update is at
\* least 2 and the entry has no driver alert in the preceding 24 hours.
C18_NudgeIff ==
    [][last'.op \in {"driver_alert", "driver_alert_skip"} =>
        \A t \in SteppedTicks :
            (last'.op = "driver_alert") <=>
                (/\ t.state.consecutive_reports >= 2
                 /\ CooledDown(t.state.last_driver_alert_at, t.now))]_vars

\* C18 (amended): the nudge fires if and only if the driver has a
\* notification chat, consecutive_reports after the update is at least 2 and
\* the entry the update returned has no driver alert in the preceding 24
\* hours.
C18_NudgeIffChat ==
    [][last'.op \in {"driver_alert", "driver_alert_skip"} =>
        \A t \in SteppedTicks :
            (last'.op = "driver_alert") <=>
                (/\ t.chat # NULL
                 /\ t.state.consecutive_reports >= 2
                 /\ CooledDown(t.state.last_driver_alert_at, t.now))]_vars

\* Witness of C18: a nudge fired a day after the one before it, on a count of
\* more than 2.
C18_Witness ==
    /\ last.op = "driver_alert"
    /\ last.count > 2
    /\ clock = 1440
    /\ fired[last.id].driver = clock
    /\ drivers[last.id].notify_chat_id # NULL

\* The escalation half of C19, which both readings of the claim share: the
\* escalation fires if and only if consecutive_reports after the update is at
\* least 3 and the entry has no escalation in the preceding 24 hours.
EscalationIff ==
    last'.op \in {"dispatch_alert", "dispatch_alert_skip"} =>
        \A t \in SteppedTicks :
            (last'.op = "dispatch_alert") <=>
                (/\ t.state.consecutive_reports >= 3
                 /\ CooledDown(t.state.last_dispatch_alert_at, t.now))

\* C19 (as claimed): the escalation fires if and only if consecutive_reports
\* after the update is at least 3 and no escalation was stamped in the
\* preceding 24 hours; and on an entry that has never had a driver alert the
\* nudge fires at the second non_compliant report in a row, not at the first.
C19_EscalationIff ==
    [][/\ EscalationIff
       /\ last'.op \in {"driver_alert", "driver_alert_skip"} =>
            \A t \in SteppedTicks :
                t.state.last_driver_alert_at = NULL =>
                    /\ t.state.consecutive_reports = 1 => last'.op = "driver_alert_skip"
                    /\ t.state.consecutive_reports = 2 => last'.op = "driver_alert"]_vars

\* C19 (amended): the same, the nudge at the second report being that of a
\* driver who has a notification chat.
C19_EscalationIffChat ==
    [][/\ EscalationIff
       /\ last'.op \in {"driver_alert", "driver_alert_skip"} =>
            \A t \in SteppedTicks :
                t.state.last_driver_alert_at = NULL =>
                    /\ t.state.consecutive_reports = 1 => last'.op = "driver_alert_skip"
                    /\ t.state.consecutive_reports = 2 /\ t.chat # NULL =>
                            last'.op = "driver_alert"]_vars

\* Witness of C19: the escalation fires at the third non_compliant report of
\* a driver whose nudge has fired and who has had no escalation before.
C19_Witness ==
    /\ last.op = "dispatch_alert"
    /\ last.count = 3
    /\ fired[last.id].driver # NULL
    /\ fired[last.id].dispatch = clock
    /\ tracking[last.id].last_dispatch_alert_at = clock

\* C20: an alert that fires leaves its time on the driver's entry in the same
\* step, and fires no less than 24 hours after the alert of the same channel
\* that fired before it for that driver.
C20_AlertsApart ==
    [][/\ last'.op = "driver_alert" =>
            LET d == last'.id
            IN  /\ d \in DOMAIN tracking'
                /\ tracking'[d].last_driver_alert_at = fired'[d].driver
                /\ fired[d].driver # NULL =>
                       fired'[d].driver - fired[d].driver >= REPORT_WINDOW
       /\ last'.op = "dispatch_alert" =>
            LET d == last'.id
            IN  /\ d \in DOMAIN tracking'
                /\ tracking'[d].last_dispatch_alert_at = fired'[d].dispatch
                /\ fired[d].dispatch # NULL =>
                       fired'[d].dispatch - fired[d].dispatch >= REPORT_WINDOW]_vars

\* C21: a pass event leaves the driver with a tracking entry whose
\* consecutive_reports is 0 and whose stored classification is compliant, and
\* a non_compliant evaluation of the driver that comes next puts the count at
\* 1.
C21_PassResetsCount ==
    [][/\ last'.op = "pass_event" =>
            /\ last'.id \in DOMAIN tracking'
            /\ tracking'[last'.id].consecutive_reports = 0
            /\ tracking'[last'.id].last_status = "compliant"
       /\ (/\ last.op = "pass_event"
           /\ last'.op = "upsert_state"
           /\ last'.id = last.id
           /\ \E t \in SteppedTicks : t.status = "non_compliant") =>
            tracking'[last'.id].consecutive_reports = 1]_vars

\* Witness of C21: a pass event has put back to 0 the count of a driver who
\* had been nudged.
C21_Witness ==
    /\ last.op = "pass_event"
    /\ fired[last.id].driver # NULL
    /\ tracking[last.id].last_driver_alert_at # NULL
    /\ tracking[last.id].consecutive_reports = 0
    /\ tracking[last.id].last_status = "compliant"

----------------------------------------------------------------------------
(* Properties of the streaks *)

\* The handler steps that end a pass: the review card's and the report's.
PassOps == {"review_pass", "compliance_pass"}

\* C22: a pass event adds exactly 1 to the driver's current streak and leaves
\* best at the larger of the old best and the new current; and no step of any
\* kind (pass, rollover, reset, review) makes best smaller.
C22_PassGrowsStreak ==
    [][/\ (last'.op \in PassOps /\ last'.id # 0) =>
            LET d == checkins'[last'.id].driver_id
                cur == drivers[d].streak_current + 1
            IN  /\ drivers'[d].streak_current = cur
                /\ drivers'[d].streak_best =
                       IF drivers[d].streak_best > cur THEN drivers[d].streak_best ELSE cur
       /\ \A d \in DriverIds : drivers'[d].streak_best >= drivers[d].streak_best]_vars

\* Witness of C22: a pass after a rollover, with the best streak above the
\* current one.
C22_Witness ==
    /\ last.op \in PassOps
    /\ last.id # 0
    /\ drivers[checkins[last.id].driver_id].streak_current = 1
    /\ drivers[checkins[last.id].driver_id].streak_best = 2

\* C23: the nightly rollover of a group sets current to 0 for exactly the
\* active drivers with no row of the prior day in the group; every other
\* driver keeps current, and nothing else of any driver changes.
C23_RolloverResetsAbsent ==
    [][last'.op = "reset_missed_checks" =>
        \A d \in DriverIds :
            drivers'[d] =
                IF /\ drivers[d].active
                   /\ ~ \E i \in DOMAIN checkins :
                          /\ checkins[i].driver_id = d
                          /\ checkins[i].group_id = last'.id
                          /\ checkins[i].date = local_date(clock) - 1
                THEN [drivers[d] EXCEPT !.streak_current = 0]
                ELSE drivers[d]]_vars

\* Witness of C23: the rollover after day 1 has left the streak of a driver
\* whose row of day 1 is a fail.
C23_Witness ==
    /\ last.op = "reset_missed_checks"
    /\ clock >= 1440
    /\ \E i \in DOMAIN checkins :
          /\ checkins[i].group_id = last.id
          /\ checkins[i].date = 1
          /\ checkins[i].status = "fail"
          /\ drivers[checkins[i].driver_id].active
          /\ drivers[checkins[i].driver_id].streak_current = 1

----------------------------------------------------------------------------
(* Properties of the pass handlers *)

\* C24: when a pass handler has marked an existing checkin, the checkin's
\* status is pass, the driver's current streak is one more than before, the
\* driver's last-pass time is set and the job store holds no follow-up job of
\* the checkin.
C24_PassCompletes ==
    [][(last'.op \in PassOps /\ last'.id # 0) =>
            LET id == last'.id
                d == checkins'[id].driver_id
            IN  /\ checkins'[id].status = "pass"
                /\ drivers'[d].streak_current = drivers[d].streak_current + 1
                /\ drivers'[d].last_pass_at # NULL
                /\ JobsOf(jobs', id) = {}]_vars

----------------------------------------------------------------------------
(* Properties of the follow-up jobs *)

\* What ends the wait for a follow-up: a response, a cancel, a new schedule.
InterruptOps == {"record_media", "cancel_followups", "schedule_followups"}

Interrupted(c) == last.op \in InterruptOps /\ last.id = c

OpenUnanswered(c) ==
    /\ c \in DOMAIN checkins
    /\ checkins[c].status \in OpenStatuses
    /\ checkins[c].responded_at = NULL

\* The slot's job is in the store, due within the time the model runs, no job
\* of the checkin is in flight and the last step was no interruption.
Waiting(c, slot) ==
    /\ OpenUnanswered(c)
    /\ \E j \in jobs : j.id = JobId(c, slot) /\ j.run_date <= MaxSchedClock
    /\ \A r \in running : r.id[1] # c
    /\ last.op \notin InterruptOps

SlotSent(c, slot) == last.op = "followup_sent" /\ last.id = c /\ last.count = slot

\* The job ended without its reminder: the chat was flagged paused or could
\* not be inspected, or a send failed.
GaveUp(c) == last.op \in {"followup_cancel", "followup_failed"} /\ last.id = c

\* Slot 2 is dispatched only when slot 1 of the checkin has left the store.
SlotOrder ==
    [][\A j \in jobs \ jobs' :
          (last'.op = "followup_dispatch" /\ j.id[2] = 2) =>
              \A k \in jobs : k.id # JobId(j.id[1], 1)]_vars

----------------------------------------------------------------------------
(* Properties of the restart *)

\* The recurring jobs of group g in a store, as <<kind, time of day>>.
RecurringOf(store, g) == {<<j.id[1], j.at>> : j \in {k \in store : k.id[2] = g}}

\* C26: after a restart and initialize, every group of the groups table has
\* its recurring jobs as its row says (digest and midnight reset; autosend at
\* the stored time when enabled; compliance and weekly when it has a
\* compliance topic), a group without a row has none, and no follow-up job is
\* in the store or in the index, whatever the state of the checkins.
C26_RestartArmsGroupsOnly ==
    [][last'.op = "restart" =>
        /\ \A g \in DOMAIN groups :
              RecurringOf(group_jobs', g) =
                  {<<"digest", groups[g].digest_time>>, <<"reset", 5>>}
                  \cup {<<"autosend", groups[g].autosend_time>> :
                           x \in {y \in {1} : groups[g].autosend_enabled}}
                  \cup {<<k, IF k = "weekly" THEN 360 ELSE 0>> :
                           k \in {y \in {"compliance", "weekly"} :
                                      groups[g].compliance_topic_id # NULL}}
        /\ \A g \in GroupIds \ DOMAIN groups : RecurringOf(group_jobs', g) = {}
        /\ Cardinality(group_jobs') =
               Cardinality(UNION {RecurringOf(group_jobs', g) \X {g} : g \in GroupIds})
        /\ jobs' = {}
        /\ \A c \in CheckinIds : followup_jobs'[c] = << >>]_vars

\* Witness of C26: a restart has dropped the two follow-up jobs of a checkin
\* that is still pending and unanswered, and has armed the autosend and
\* compliance jobs of a group.
C26_Witness ==
    /\ last.op = "restart"
    /\ last.count = 2
    /\ \E c \in CheckinIds : OpenUnanswered(c) /\ checkins[c].status = "pending"
    /\ \E g \in DOMAIN groups :
          /\ groups[g].autosend_enabled
          /\ groups[g].compliance_topic_id # NULL
          /\ GroupJob("autosend", g, groups[g].autosend_time) \in group_jobs
          /\ GroupJob("compliance", g, 0) \in group_jobs

----------------------------------------------------------------------------
(* Properties of the comment prompts *)

\* C27: a prompt is resolved at most once: of the replies to one prompt, at
\* most one resolves to a driver and records a comment, also when two are
\* handled at the same time.
C27_PromptSingleUse ==
    \A m \in 1..MaxPrompts : Cardinality({n \in notes : n.message_id = m}) <= 1

----------------------------------------------------------------------------
(* Properties of failures and missing rows *)

\* C28: a record_media call that fails at any of its three statements leaves
\* no new checkin row and no media row, and leaves media_count, status and
\* first-response time of every row as they were.
C28_RecordMediaAtomic ==
    [][last'.op = "record_media_raise" =>
          /\ Len(checkins') = Len(checkins)
          /\ media' = media
          /\ \A i \in DOMAIN checkins :
                /\ checkins'[i].media_count = checkins[i].media_count
                /\ checkins'[i].status = checkins[i].status
                /\ checkins'[i].responded_at = checkins[i].responded_at
                /\ checkins'[i].group_id = checkins[i].group_id]_vars

\* Witness of C28: the call failed at its third statement, after the upsert
\* and the INSERT INTO media had run, for a driver who has no row of the day.
C28_Witness ==
    /\ last.op = "record_media_raise"
    /\ last.count = 3
    /\ checkins = << >>
    /\ media = {}

\* The ledger operations of C29 and what they hand back when they raise.
NotFoundOps == {"update_review_status", "reopen_checkin", "fetch_checkin",
                "mark_notified", "reset_checkin"}
RaiseOps == {"mark_notified_raise", "reset_checkin_raise"}

\* C29: a ledger operation given a key or an id that no checkin has hands back
\* an empty result, raises nothing and changes no table.
C29_NotFoundIsEmpty ==
    [][(last'.op \in NotFoundOps \cup RaiseOps /\ last'.id = 0) =>
          /\ last'.op \notin RaiseOps
          /\ UNCHANGED <<checkins, drivers, media>>]_vars

----------------------------------------------------------------------------
(* Properties of the failing sends *)

\* C30: a pass whose review-card send fails still leaves the row at pass and
\* still applies the state updates that remain: the follow-up jobs of the
\* checkin are cancelled and the driver's compliance tracking is reset to a
\* count of 0 with classification compliant.
C30_SendFailureKeepsUpdates ==
    [][last'.op = "review_pass_card_raise" =>
          LET id == last'.id
              d == checkins'[id].driver_id
          IN  /\ checkins'[id].status = "pass"
              /\ JobsOf(jobs', id) = {}
              /\ d \in DOMAIN tracking'
              /\ tracking'[d].consecutive_reports = 0
              /\ tracking'[d].last_status = "compliant"]_vars

----------------------------------------------------------------------------
(* Properties of the dashboard *)

\* C31: a dashboard request with valid credentials is answered 200 with the
\* values its query gives on the tables as they are (the counts of the
\* summary, the driver ids of the pending list, the driver id and the ids and
\* statuses of the check-ins), the check-ins of a driver that does not exist
\* are answered 404, and no dashboard request changes drivers, checkins or
\* tracking.
C31_DashboardReadsThrough ==
    [][last'.op \in {"api_compliance_summary", "api_compliance_pending",
                     "api_driver_checkins"} =>
          LET today == local_date(clock)
              r == response'
              open(d) == \E i \in DOMAIN checkins :
                            /\ checkins[i].driver_id = d
                            /\ checkins[i].status \in OpenStatuses
                            /\ \A j \in DOMAIN checkins :
                                  checkins[j].driver_id = d =>
                                      checkins[j].date <= checkins[i].date
          IN  /\ UNCHANGED <<checkins, drivers, tracking>>
              /\ r.credentials = BasicAuth =>
                    /\ r.path = "api_compliance_summary" =>
                          /\ r.status = 200
                          /\ r.body.total_drivers =
                                Cardinality({d \in DriverIds : drivers[d].active})
                          /\ r.body.pass_count = Cardinality({i \in DOMAIN checkins :
                                checkins[i].date = today /\ checkins[i].status = "pass"})
                          /\ r.body.pending_count = Cardinality({i \in DOMAIN checkins :
                                checkins[i].date = today
                                /\ checkins[i].status \in OpenStatuses})
                    /\ r.path = "api_compliance_pending" =>
                          /\ r.status = 200
                          /\ {e.driver_id : e \in r.body} =
                                {d \in DriverIds : drivers[d].active /\ open(d)}
                    /\ r.path = "api_driver_checkins" =>
                          IF r.driver_id \notin DriverIds
                          THEN r.status = 404
                          ELSE /\ r.status = 200
                               /\ r.body.driver_id = r.driver_id
                               /\ {<<e.id, e.status>> : e \in r.body.checkins} =
                                     {<<i, checkins[i].status>> : i \in
                                        {j \in DOMAIN checkins :
                                           /\ checkins[j].driver_id = r.driver_id
                                           /\ checkins[j].date >= today - 6}}]_vars

\* Witness of C31: the check-ins of an existing driver were answered with a
\* reviewed check-in of the day before.
C31_Witness ==
    /\ response.path = "api_driver_checkins"
    /\ response.status = 200
    /\ local_date(clock) = 2
    /\ \E e \in response.body.checkins : e.status = "pass"

----------------------------------------------------------------------------
(* Properties of a follow-up job that gives up or sends *)

\* C32: a follow-up job whose re-fetched checkin is missing, no longer pending
\* or submitted, or answered sends no reminder and posts no notice, and when
\* it has returned no follow-up job of that checkin is outstanding.
C32_ClosedJobLeavesNone ==
    [][\A r \in running :
          (r.pc = "stop" /\ r \notin running') =>
              /\ last'.op = "followup_cancel"
              /\ JobsOf(jobs', r.id[1]) = {}]_vars

\* C33: a follow-up job that finds its checkin open and unanswered and the
\* target chat flagged paused, or not inspectable, sends nothing and cancels
\* every follow-up slot the checkin still has.
C33_PausedJobCancelsAll ==
    [][\A r \in running :
          (r.pc = "go" /\ r \notin running' /\ last'.op \notin {"followup_sent", "followup_failed"}) =>
              /\ last'.op = "followup_cancel"
              /\ JobsOf(jobs', r.id[1]) = {}
              /\ followup_jobs'[r.id[1]] = << >>]_vars

\* C36: whatever handlers run between the steps of a firing follow-up job, the
\* job sends its reminder only while the checkin is pending or submitted and
\* has no recorded response.
C36_NoSendAfterClose ==
    [][last'.op = "followup_sent" =>
          /\ checkins[last'.id].status \in OpenStatuses
          /\ checkins[last'.id].responded_at = NULL]_vars

----------------------------------------------------------------------------
(* Properties of refresh_group *)

\* C34: when refresh_group(g) has returned and no other command on g is under
\* way, the recurring jobs armed for g are exactly those of g's row as the
\* table has it, each once: digest and midnight reset always, autosend when
\* enabled with a time, compliance and weekly when a compliance topic is set,
\* and none for a group without a row; whatever jobs of g were armed before.
C34_RefreshMatchesConfig ==
    [][(last'.op = "refresh_group" /\ \A r \in refreshing' : r.group_id # last'.id) =>
          LET g == last'.id
          IN  /\ RecurringOf(group_jobs', g) =
                    IF g \in DOMAIN groups'
                    THEN {<<"digest", groups'[g].digest_time>>, <<"reset", 5>>}
                         \cup {<<"autosend", groups'[g].autosend_time>> :
                                  x \in {y \in {1} : /\ groups'[g].autosend_enabled
                                                     /\ groups'[g].autosend_time # NULL}}
                         \cup {<<k, IF k = "weekly" THEN 360 ELSE 0>> :
                                  k \in {y \in {"compliance", "weekly"} :
                                             groups'[g].compliance_topic_id # NULL}}
                    ELSE {}
              /\ Cardinality({j \in group_jobs' : j.id[2] = g}) =
                    Cardinality({j.id[1] : j \in {k \in group_jobs' : k.id[2] = g}})]_vars

----------------------------------------------------------------------------
(* Properties of the classification *)

\* What _evaluate_driver was given, in the state before the step.
Evaluated(d, g) == latest_checkin(checkins, d, g)
RecentPass(d) ==
    drivers[d].last_pass_at # NULL /\ clock - drivers[d].last_pass_at <= REPORT_WINDOW
PassInWindow(c) ==
    c.status = "pass" /\ c.reviewed_at # NULL /\ clock - c.reviewed_at <= REPORT_WINDOW
ExceptionRow(c) ==
    c.reason \in ExceptionReasons \/ c.status \in {"excused", "needs_fix"}

----------------------------------------------------------------------------
(* Properties of the handlers and the follow-up jobs together *)

\* C37: whenever no handler or job is under way, a checkin whose status is
\* pass, fail, needs_fix or excused has no follow-up job in the store.
C37_TerminalHasNoFollowups ==
    (reviewing = {} /\ running = {} /\ excuse_pending = {}) =>
        \A id \in DOMAIN checkins \cap CheckinIds :
            checkins[id].status \notin OpenStatuses => JobsOf(jobs, id) = {}

----------------------------------------------------------------------------
(* Properties of the streak over the days *)

\* C38: the current streak of a driver is incremented at most once for a
\* calendar day, whatever pass actions are applied to the day's checkin: the
\* streak, 0 when the first day begins, is on day n at most n.
C38_OneIncrementPerDay ==
    \A d \in DriverIds : drivers[d].streak_current <= local_date(clock)

\* C39: in every reachable state every driver has
\* 0 <= streak_current <= streak_best, whatever passes and nightly rollovers
\* came before.
C39_StreakWithinBest ==
    \A d \in DriverIds :
        /\ 0 <= drivers[d].streak_current
        /\ drivers[d].streak_current <= drivers[d].streak_best

\* Witness of C39: the nightly rollover has put a driver's current streak
\* back to 0 below a best streak of MaxStreak, earned by passes.
C39_Witness ==
    /\ last.op = "reset_missed_checks"
    /\ \E d \in DriverIds :
          drivers[d].streak_current = 0 /\ drivers[d].streak_best = MaxStreak

----------------------------------------------------------------------------
(* Properties of the autosend job over a day *)

\* C40: the autosend job is idempotent per local day.  A run that finds the
\* driver's checkin of today with a first-notified time dated today skips the
\* driver: no notification, no reset, no change of the follow-up jobs.  Every
\* run leaves the checkin notified today, so a second run of the day is such
\* a skip, and leaves at most two follow-up jobs for it.
C40_AutosendOncePerDay ==
    [][last'.op \in {"autosend", "autosend_skip"} =>
          LET id == last'.id
              today == local_date(clock)
              before == IF id \in DOMAIN checkins THEN <<checkins[id]>> ELSE << >>
              notified == /\ before # << >>
                          /\ before[1].sent_at # NULL
                          /\ local_date(before[1].sent_at) = today
          IN  /\ notified =>
                    /\ last'.op = "autosend_skip"
                    /\ checkins'[id] = [before[1] EXCEPT !.group_id = checkins'[id].group_id]
                    /\ UNCHANGED <<drivers, media, jobs, followup_jobs>>
              /\ checkins'[id].sent_at # NULL
              /\ local_date(checkins'[id].sent_at) = today
              /\ Cardinality(JobsOf(jobs', id)) <= 2]_vars

\* Witness of C40: a run of the autosend job has skipped a driver whose
\* checkin was notified earlier the same day and still has its two follow-up
\* jobs.
C40_Witness ==
    /\ last.op = "autosend_skip"
    /\ checkins[last.id].sent_at < clock
    /\ local_date(checkins[last.id].sent_at) = local_date(clock)
    /\ Cardinality(JobsOf(jobs, last.id)) = 2

====
